---- MODULE Spec2Model ----
(***************************************************************************)
(* Korean consonant pronunciation analyzers (src/analysis): stop,          *)
(* fricative, affricate, nasal and liquid.                                 *)
(*                                                                         *)
(* One call of analyze_<class>(wav, syllable) is one action of Spec.  The  *)
(* recording is represented by what the signal libraries (Praat, scipy)    *)
(* return for it: frame tracks, band energies and spectra.  Everything     *)
(* the repository's own code computes from those is computed here.         *)
(*                                                                         *)
(* Numbers.  Python floats are fixed-point integers here:                  *)
(*   scores        hundredths of a point   (100.0  -> 10000)               *)
(*   times         milliseconds                                            *)
(*   frequencies   Hz                                                      *)
(*   f0 z-score, ratios, fractions   hundredths                            *)
(*   closure depth tenths of a dB                                          *)
(* None is the value None below.                                           *)
(***************************************************************************)
EXTENDS Integers, Sequences, FiniteSets, TLC

\* analyzer, syllable, rec, pc, result: one analyze_* call (Spec)
\* module: the state the requests share: the mutable module-level objects
\*         of stops.py, by name (Spec, SpecCalls, SpecClient, SpecRoute);
\*         the progress table (SpecProgress); the temporary files on disk
\*         and the calibration tables (SpecRequests)
\* calls:  the calls of the service's worker threads (SpecCalls), the
\*         update_progress calls (SpecProgress), the requests handled so
\*         far (SpecRequests)
VARIABLES analyzer, syllable, rec, pc, result, module, calls

vars == <<analyzer, syllable, rec, pc, result, module, calls>>

\* Python's None (no feature value is ever this small).
None == 0 - 1000000

\* ---------------------------------------------------------------------
\* Arithmetic helpers
\* ---------------------------------------------------------------------
Abs(x) == IF x < 0 THEN 0 - x ELSE x

Min2(a, b) == IF a <= b THEN a ELSE b

Max2(a, b) == IF a >= b THEN a ELSE b

Clip(x, lo, hi) == Min2(Max2(x, lo), hi)

\* round(a / b) for a >= 0, b > 0
RoundDiv(a, b) == (2 * a + b) \div (2 * b)

\* 10000 * exp(-n) for n = 0..9
ExpTabInt == <<10000, 3679, 1353, 498, 183, 67, 25, 9, 3, 1>>

\* 10000 * exp(-j/10) for j = 0..9
ExpTabTenth == <<10000, 9048, 8187, 7408, 6703, 6065, 5488, 4966, 4493, 4066>>

\* 10000 * exp(-r/1000) for r = 0..99 (Taylor, three terms)
ExpSmall(r) == 10000 - 10 * r + RoundDiv(r * r, 200) - RoundDiv(r * r * r, 600000)

\* math.exp(-t): t in thousandths (t >= 0), result in 1/10000.
ExpNeg(t) ==
  IF t >= 10000 THEN 0
  ELSE LET n == t \div 1000
           j == (t % 1000) \div 100
           r == t % 100
           a == RoundDiv(ExpTabTenth[j + 1] * ExpSmall(r), 10000)
       IN  RoundDiv(ExpTabInt[n + 1] * a, 10000)

\* 100 * exp(-(x-mu)^2 / (2 sigma^2)) in hundredths of a point;
\* x, mu, sigma in the same unit, sigma > 0.
GaussKernel(x, mu, sigma) ==
  LET z == (Abs(x - mu) * 1000) \div sigma
  IN  IF z >= 4500 THEN 0 ELSE ExpNeg((z * z) \div 2000)

\* ArgMaxFirst without the comparison: the head of order
ArgHead(order, f) == order[1]

\* First element of the sequence order with the largest value of f:
\* Python max(d, key=d.get) and the head of a stable descending sort.
ArgMaxFirst(order, f) ==
  LET best == CHOOSE i \in 1..Len(order) :
                /\ \A k \in 1..Len(order) : f[order[k]] <= f[order[i]]
                /\ \A k \in 1..(i - 1) : f[order[k]] < f[order[i]]
  IN  order[best]

\* =====================================================================
\* stops.py
\* =====================================================================
STOP_META ==
  [ga  |-> [place |-> "velar",    phonation |-> "lenis"],
   kka |-> [place |-> "velar",    phonation |-> "fortis"],
   ka  |-> [place |-> "velar",    phonation |-> "aspirated"],
   da  |-> [place |-> "alveolar", phonation |-> "lenis"],
   tta |-> [place |-> "alveolar", phonation |-> "fortis"],
   ta  |-> [place |-> "alveolar", phonation |-> "aspirated"],
   ba  |-> [place |-> "labial",   phonation |-> "lenis"],
   ppa |-> [place |-> "labial",   phonation |-> "fortis"],
   pa  |-> [place |-> "labial",   phonation |-> "aspirated"]]

STOP_SET == DOMAIN STOP_META

\* the dict literal bound to PLACE_F2_CENTERS_HZ at import; the functions
\* below read the dict through the module global, module.PLACE_F2_CENTERS_HZ
PLACE_F2_CENTERS_HZ == [labial |-> 1200, alveolar |-> 1700, velar |-> 2200]

\* the module-level objects after import
ModuleObjects == [PLACE_F2_CENTERS_HZ |-> PLACE_F2_CENTERS_HZ]

\* a reference to the module-level object of that name (not a copy)
Ref(name) == [ref |-> name]

PLACE_TOLERANCE_HZ == 600

\* iteration order of the PLACE_F2_CENTERS_HZ dict
PlaceOrder == <<"labial", "alveolar", "velar">>

PLACE_SIGMA_HZ == 700

\* 0.20, in thousandths
PLACE_LOW_CONF_THRESH == 200

\* (lo, hi, center) in ms
VOT_RANGES_MS ==
  [fortis |-> <<0, 20, 10>>, lenis |-> <<20, 50, 35>>, aspirated |-> <<60, 100, 80>>]

\* (center, tolerance) in hundredths
F0Z_TARGETS ==
  [lenis |-> <<0 - 50, 70>>, fortis |-> <<100, 70>>, aspirated |-> <<60, 70>>]

\* 0.8, in hundredths
F0Z_SIGMA == 80

\* 0.40 and 0.60, in percent
PLACE_WEIGHT == 40

PHONATION_WEIGHT == 60

VOT_BOUNDARIES_MS == {20, 50, 60, 100}

VOT_BOUNDARY_NEAR_MS == 6

\* F0Calibration absent (f0_calibration=None)
NoCalibration == [mean_hz |-> None, sd_hz |-> None]

\* detect_burst_time: first intensity frame above (max - 30 dB); the
\* intensity track is a sequence of [t, db].
detect_burst_time(intensity) ==
  IF Len(intensity) = 0 THEN 0
  ELSE LET int_max == CHOOSE m \in {intensity[i].db : i \in 1..Len(intensity)} :
                        \A i \in 1..Len(intensity) : intensity[i].db <= m
           cands   == {i \in 1..Len(intensity) : intensity[i].db > int_max - 30}
       IN  IF cands = {} THEN Max2(0, intensity[1].t)
           ELSE intensity[CHOOSE i \in cands : \A k \in cands : i <= k].t

\* A pitch frame of the post-burst window: [t, f0, hnr, drop] with t in ms
\* after the burst, hnr the nearest harmonicity value (dB) and drop the
\* nearest intensity's distance below the window's peak (iv_max - this_int).
\* Frames not listed are unvoiced (f0 = 0), which both loops skip.
StopFrameInRange(fr) == fr.f0 > 70 /\ fr.f0 < 400

\* StopFrameGate letting every frame through
StopFrameGate_open(fr, aspirated_mode) == TRUE

StopFrameGate(fr, aspirated_mode) ==
  IF aspirated_mode THEN fr.hnr > 5 /\ fr.drop < 40
  ELSE fr.drop < 50

\* estimate_vot_ms: [vot_ms, burst_t, voiced_t]
estimate_vot_ms_stop(snd, aspirated_mode) ==
  LET burst_t == detect_burst_time(snd.intensity)
      end_t   == Min2(burst_t + 180, snd.xmax)
      pitch   == snd.pitch
      gated   == {i \in 1..Len(pitch) :
                    StopFrameInRange(pitch[i]) /\ StopFrameGate(pitch[i], aspirated_mode)}
      inrange == {i \in 1..Len(pitch) : StopFrameInRange(pitch[i])}
      First(S) == CHOOSE i \in S : \A k \in S : i <= k
      voiced_rel == IF gated # {} THEN pitch[First(gated)].t
                    ELSE IF inrange # {} THEN pitch[First(inrange)].t
                    ELSE None
  IN  IF end_t <= burst_t THEN [vot_ms |-> None, burst_t |-> burst_t, voiced_t |-> None]
      ELSE IF voiced_rel = None
           THEN [vot_ms |-> None, burst_t |-> burst_t, voiced_t |-> None]
           ELSE [vot_ms   |-> Max2(0, (burst_t + voiced_rel) - burst_t),
                 burst_t  |-> burst_t,
                 voiced_t |-> burst_t + voiced_rel]

\* estimate_f2_onset_hz: snd.f2 is what the formant track holds at
\* voiced onset + 20 ms (None for NaN / undefined).
estimate_f2_onset_hz_stop(snd, voiced_t) ==
  IF voiced_t = None THEN None
  ELSE IF snd.f2 = None \/ snd.f2 <= 0 THEN None
  ELSE snd.f2

\* estimate_vowel_onset_f0_hz: snd.f0_onset is the median of the voiced
\* pitch frames in the 30 ms after voiced onset (None if there are none).
estimate_vowel_onset_f0_hz(snd, voiced_t) ==
  IF voiced_t = None THEN None
  ELSE IF Min2(voiced_t + 30, snd.xmax) <= voiced_t THEN None
  ELSE snd.f0_onset

\* compute_f0_z, in hundredths
compute_f0_z(f0_onset_hz, calib) ==
  IF f0_onset_hz = None \/ calib = NoCalibration THEN None
  ELSE IF calib.sd_hz <= 0 THEN None
  ELSE IF f0_onset_hz >= calib.mean_hz
       THEN ((f0_onset_hz - calib.mean_hz) * 100) \div calib.sd_hz
       ELSE 0 - (((calib.mean_hz - f0_onset_hz) * 100) \div calib.sd_hz)

gaussian_distance_score(value, center, sigma) ==
  LET sg == IF sigma <= 0 THEN 1 ELSE sigma
  IN  Max2(0, Min2(10000, GaussKernel(value, center, sg)))

linear_distance_score(value, center, tol) ==
  LET d == Abs(value - center)
      s == 10000 - RoundDiv(d * 10000, tol)
  IN  Max2(0, Min2(10000, s))

compute_place_score(f2_onset_hz, target_place) ==
  IF f2_onset_hz = None \/ target_place \notin DOMAIN module.PLACE_F2_CENTERS_HZ THEN None
  ELSE gaussian_distance_score(f2_onset_hz, module.PLACE_F2_CENTERS_HZ[target_place],
                               PLACE_SIGMA_HZ)

\* compute_place_softscores_and_confidence reporting "unknown" whenever the
\* confidence is below PLACE_LOW_CONF_THRESH
compute_place_softscores_and_confidence_strict(f2_onset_hz) ==
  IF f2_onset_hz = None
  THEN [detected_place |-> "unknown", place_confidence |-> None, place_softscores |-> <<>>]
  ELSE LET soft == [p \in DOMAIN module.PLACE_F2_CENTERS_HZ |->
                      gaussian_distance_score(f2_onset_hz, module.PLACE_F2_CENTERS_HZ[p],
                                              PLACE_SIGMA_HZ)]
           best_place == ArgMaxFirst(PlaceOrder, soft)
           best_s     == soft[best_place]
           rest       == DOMAIN soft \ {best_place}
           second_s   == soft[CHOOSE p \in rest : \A q \in rest : soft[q] <= soft[p]]
           conf       == IF best_s = 0 THEN 0 ELSE ((best_s - second_s) * 1000) \div best_s
       IN  [detected_place   |-> IF conf < PLACE_LOW_CONF_THRESH THEN "unknown" ELSE best_place,
            place_confidence |-> Max2(0, Min2(1000, conf)),
            place_softscores |-> soft]

\* compute_place_softscores_and_confidence; confidence in thousandths
compute_place_softscores_and_confidence(f2_onset_hz) ==
  IF f2_onset_hz = None
  THEN [detected_place |-> "unknown", place_confidence |-> None, place_softscores |-> <<>>]
  ELSE LET soft == [p \in DOMAIN module.PLACE_F2_CENTERS_HZ |->
                      gaussian_distance_score(f2_onset_hz, module.PLACE_F2_CENTERS_HZ[p],
                                              PLACE_SIGMA_HZ)]
           best_place == ArgMaxFirst(PlaceOrder, soft)
           best_s     == soft[best_place]
           rest       == DOMAIN soft \ {best_place}
           second_s   == soft[CHOOSE p \in rest : \A q \in rest : soft[q] <= soft[p]]
           conf       == IF best_s = 0 THEN 0 ELSE ((best_s - second_s) * 1000) \div best_s
       IN  [detected_place   |-> best_place,
            place_confidence |-> Max2(0, Min2(1000, conf)),
            place_softscores |-> soft]

vot_status(vot_ms) ==
  IF vot_ms = None THEN "unknown"
  ELSE IF vot_ms < 20 THEN "fortis-like"
  ELSE IF vot_ms < 50 THEN "lenis-like"
  ELSE IF vot_ms < 100 THEN "aspirated-like"
  ELSE "over-aspirated"

\* classify_phonation_by_vot with the fortis threshold at 40 ms
classify_phonation_by_vot_40(vot_ms) ==
  IF vot_ms = None THEN "unknown"
  ELSE IF vot_ms < 40 THEN "fortis"
  ELSE IF vot_ms < 50 THEN "lenis"
  ELSE IF vot_ms < 100 THEN "aspirated"
  ELSE "over-aspirated"

classify_phonation_by_vot(vot_ms) ==
  IF vot_ms = None THEN "unknown"
  ELSE IF vot_ms < 20 THEN "fortis"
  ELSE IF vot_ms < 50 THEN "lenis"
  ELSE IF vot_ms < 100 THEN "aspirated"
  ELSE "over-aspirated"

compute_vot_score(vot_ms, target_phonation) ==
  IF vot_ms = None THEN None
  ELSE IF target_phonation \notin DOMAIN VOT_RANGES_MS THEN None
  ELSE LET lo     == VOT_RANGES_MS[target_phonation][1]
           hi     == VOT_RANGES_MS[target_phonation][2]
           center == VOT_RANGES_MS[target_phonation][3]
       IN  IF lo <= vot_ms /\ vot_ms <= hi
           THEN linear_distance_score(vot_ms, center, Max2((hi - lo) \div 2, 1))
           ELSE LET d == IF vot_ms < lo THEN lo - vot_ms ELSE vot_ms - hi
                    s == RoundDiv(70 * ExpNeg(40 * d), 100)
                IN  Max2(0, Min2(7000, s))

compute_f0_score(f0_z, target_phonation) ==
  IF f0_z = None THEN None
  ELSE IF target_phonation \notin DOMAIN F0Z_TARGETS THEN None
  ELSE gaussian_distance_score(f0_z, F0Z_TARGETS[target_phonation][1], F0Z_SIGMA)

distance_to_nearest_boundary(vot_ms) ==
  IF vot_ms = None THEN None
  ELSE LET ds == {Abs(vot_ms - b) : b \in VOT_BOUNDARIES_MS}
       IN  CHOOSE d \in ds : \A e \in ds : d <= e

\* compute_phonation_score with the F0 weight 0.20 at every VOT
compute_phonation_score_fixed_weight(vot_score, f0_score, vot_ms) ==
  IF vot_score = None /\ f0_score = None THEN None
  ELSE IF vot_score = None THEN f0_score
  ELSE IF f0_score = None THEN vot_score
  ELSE RoundDiv(80 * vot_score + 20 * f0_score, 100)

compute_phonation_score(vot_score, f0_score, vot_ms) ==
  IF vot_score = None /\ f0_score = None THEN None
  ELSE IF vot_score = None THEN f0_score
  ELSE IF f0_score = None THEN vot_score
  ELSE LET d    == distance_to_nearest_boundary(vot_ms)
           w_f0 == IF d = None THEN 25
                   ELSE IF d <= VOT_BOUNDARY_NEAR_MS THEN 45 ELSE 20
       IN  RoundDiv((100 - w_f0) * vot_score + w_f0 * f0_score, 100)

compute_final_score(place_score, phonation_score) ==
  IF place_score = None /\ phonation_score = None THEN None
  ELSE IF place_score = None THEN phonation_score
  ELSE IF phonation_score = None THEN place_score
  ELSE RoundDiv(PLACE_WEIGHT * place_score + PHONATION_WEIGHT * phonation_score, 100)

\* generate_stop_feedback: the text as the sequence of its sentences' names
generate_stop_feedback(target_place, detected_place, target_phonation, detected_phonation, place_score, phonation_score, place_confidence) ==
  IF place_score = None /\ phonation_score = None THEN <<"could_not_measure">>
  ELSE LET place_hint ==
             IF detected_place # "unknown" /\ detected_place # target_place
             THEN <<"place_correction", target_place>>
             ELSE IF place_confidence # None /\ place_confidence < PLACE_LOW_CONF_THRESH
                  THEN <<"place_almost_there", target_place>>
                  ELSE <<"place_position_is_good", target_place>>
           phon_mismatch == detected_phonation # "unknown"
                            /\ detected_phonation # target_phonation
           phon_hint == IF phon_mismatch THEN <<"phonation_correction", target_phonation>>
                        ELSE <<>>
       IN  phon_hint \o place_hint

evaluate_stop(f2_onset_hz, vot_ms, f0_z, target_place, target_phonation) ==
  LET pl          == compute_place_softscores_and_confidence(f2_onset_hz)
      place_score == compute_place_score(f2_onset_hz, target_place)
      vot_sc      == compute_vot_score(vot_ms, target_phonation)
      f0_sc       == compute_f0_score(f0_z, target_phonation)
      phonation_sc == compute_phonation_score(vot_sc, f0_sc, vot_ms)
  IN  [detected_place     |-> pl.detected_place,
       detected_phonation |-> classify_phonation_by_vot(vot_ms),
       place_score        |-> place_score,
       place_confidence   |-> pl.place_confidence,
       place_softscores   |-> pl.place_softscores,
       vot_score          |-> vot_sc,
       f0_score           |-> f0_sc,
       phonation_score    |-> phonation_sc,
       final_score        |-> compute_final_score(place_score, phonation_sc),
       diagnostics        |-> [vot_status       |-> vot_status(vot_ms),
                               near_boundary_ms |-> distance_to_nearest_boundary(vot_ms)],
       plots              |->
         [f2_centers_hz   |-> Ref("PLACE_F2_CENTERS_HZ"),
          f2_tolerance_hz |-> PLACE_TOLERANCE_HZ,
          f2_user_hz      |-> f2_onset_hz,
          vot_f0_point    |-> [x_vot_ms |-> vot_ms, y_f0_z |-> f0_z],
          vot_reference_ranges_ms |->
            [k \in DOMAIN VOT_RANGES_MS |->
               [low |-> VOT_RANGES_MS[k][1], high |-> VOT_RANGES_MS[k][2],
                center |-> VOT_RANGES_MS[k][3]]],
          f0z_reference_targets |->
            [k \in DOMAIN F0Z_TARGETS |->
               [center |-> F0Z_TARGETS[k][1], tol |-> F0Z_TARGETS[k][2]]]]]

\* analyze_stop(wav_path, syllable, f0_calibration): snd is the loaded sound
analyze_stop(snd, syl, f0_calibration) ==
  IF syl \notin STOP_SET THEN [status |-> "error"]
  ELSE LET target_place     == STOP_META[syl].place
           target_phonation == STOP_META[syl].phonation
           v        == estimate_vot_ms_stop(snd, target_phonation = "aspirated")
           f2_onset == estimate_f2_onset_hz_stop(snd, v.voiced_t)
           f0_onset == estimate_vowel_onset_f0_hz(snd, v.voiced_t)
           f0_z     == compute_f0_z(f0_onset, f0_calibration)
           ev       == evaluate_stop(f2_onset, v.vot_ms, f0_z, target_place, target_phonation)
       IN  [status     |-> "ok",
            syllable   |-> syl,
            type       |-> "stop",
            targets    |-> [place |-> target_place, phonation |-> target_phonation],
            features   |-> [vot_ms |-> v.vot_ms, f2_onset_hz |-> f2_onset,
                            f0_onset_hz |-> f0_onset, f0_z |-> f0_z],
            evaluation |-> ev,
            feedback   |-> generate_stop_feedback(target_place, ev.detected_place,
                              target_phonation, ev.detected_phonation,
                              ev.place_score, ev.phonation_score, ev.place_confidence)]

\* =====================================================================
\* Recordings.  Sample rate 16000 Hz: 16 samples per millisecond, so the
\* code's sample counts int(0.02*sr), int(0.05*sr), ... are whole
\* milliseconds and signal sizes are kept in ms.
\*
\* snd.dur        duration of the loaded sound (ms)
\* snd.int_ok     FALSE when snd.to_intensity raises (sound too short)
\* snd.intensity  the 10 ms intensity track as a sequence of [t, db];
\*                only frames that matter are listed, in time order
\* =====================================================================

\* max of a non-empty set of integers
SetMax(S) == CHOOSE m \in S : \A x \in S : x <= m

SetMin(S) == CHOOSE m \in S : \A x \in S : m <= x

\* trim_by_intensity without the padding around the active frames
trim_by_intensity_unpadded(snd, silence_db_below_peak, pad) ==
  LET untrimmed == [dur |-> snd.dur, offset |-> 0]
      vals   == snd.intensity
      vmax   == IF Len(vals) = 0 THEN 0 ELSE SetMax({vals[i].db : i \in 1..Len(vals)})
      thr    == vmax - silence_db_below_peak
      active == {i \in 1..Len(vals) : vals[i].db >= thr}
      t0     == Max2(0, vals[SetMin(active)].t)
      t1     == Min2(snd.dur, vals[SetMax(active)].t)
  IN  IF ~snd.int_ok THEN untrimmed
      ELSE IF active = {} THEN untrimmed
      ELSE IF t1 <= t0 THEN untrimmed
      ELSE [dur |-> t1 - t0, offset |-> t0]

\* trim_by_intensity without the clamp of the slice to [0, duration]
trim_by_intensity_unclamped(snd, silence_db_below_peak, pad) ==
  LET untrimmed == [dur |-> snd.dur, offset |-> 0]
      vals   == snd.intensity
      vmax   == IF Len(vals) = 0 THEN 0 ELSE SetMax({vals[i].db : i \in 1..Len(vals)})
      thr    == vmax - silence_db_below_peak
      active == {i \in 1..Len(vals) : vals[i].db >= thr}
      t0     == vals[SetMin(active)].t - pad
      t1     == vals[SetMax(active)].t + pad
  IN  IF ~snd.int_ok THEN untrimmed
      ELSE IF active = {} THEN untrimmed
      ELSE IF t1 <= t0 THEN untrimmed
      ELSE [dur |-> t1 - t0, offset |-> t0]

\* trim_by_intensity of liquid.py, nasal.py and affricate.py (the three
\* bodies are the same): [dur, offset] of the returned signal.
trim_by_intensity(snd, silence_db_below_peak, pad) ==
  LET untrimmed == [dur |-> snd.dur, offset |-> 0]
      vals   == snd.intensity
      vmax   == IF Len(vals) = 0 THEN 0 ELSE SetMax({vals[i].db : i \in 1..Len(vals)})
      thr    == vmax - silence_db_below_peak
      active == {i \in 1..Len(vals) : vals[i].db >= thr}
      t0     == Max2(0, vals[SetMin(active)].t - pad)
      t1     == Min2(snd.dur, vals[SetMax(active)].t + pad)
  IN  IF ~snd.int_ok THEN untrimmed
      ELSE IF active = {} THEN untrimmed
      ELSE IF t1 <= t0 THEN untrimmed
      ELSE [dur |-> t1 - t0, offset |-> t0]

\* _safe_segment: the length (ms) of y[a:b], or None
safe_segment(size, t0, dur_s) ==
  LET a == Max2(0, t0)
      b == Min2(size, t0 + dur_s)
  IN  IF b - a < 20 THEN None ELSE b - a

\* estimate_onset_t without the 50 ms minimum length
estimate_onset_t_no_minimum(y) ==
  IF y.env_peak <= 0 THEN None
  ELSE y.env_first

\* estimate_onset_t of liquid.py and nasal.py (same body).  y.env_peak is
\* max|bandpass(y, 80, 4000)|; y.env_first is the first sample time (ms)
\* where the smoothed envelope reaches 6% of that peak, None if nowhere.
estimate_onset_t(y) ==
  IF y.size < 50 THEN None
  ELSE IF y.env_peak <= 0 THEN None
  ELSE y.env_first

\* =====================================================================
\* liquid.py
\* =====================================================================
LIQUID_META == [ra |-> [place |-> "alveolar", liquid |-> TRUE]]

LIQUID_SET == DOMAIN LIQUID_META

REF_F3_ONSET_HZ == 2500

REF_F3_SIGMA == 650

\* tenths of a dB
REF_CLOSURE_DEPTH_DB == 100

REF_CLOSURE_DEPTH_SIGMA == 60

REF_CENTROID_HZ_LIQ == 900

REF_CENTROID_SIGMA_LIQ == 650

\* hundredths
REF_FRIC_RATIO_PEAK == 120

REF_FRIC_RATIO_SIGMA == 70

REF_VOICED_FRAC == 70

REF_VOICED_FRAC_SIGMA == 20

\* percent
W_F3 == 25

W_CLOSURE == 35

W_CENTROID == 20

W_FRIC == 10

W_VOICED == 10

\* reject-gate thresholds 2.6, 0.35, 3.5 and the cap 35.0, in model units
GATE_FRIC_PEAK == 260

GATE_VOICED_FRAC == 35

GATE_CLOSURE_DEPTH == 35

REJECT_CAP == 3500

\* y.f3 is the Burg formant value at onset + 60 ms (None for NaN, <= 0 or
\* a Praat error)
estimate_f3_onset_hz(y, onset_t) ==
  IF y.f3 = None \/ y.f3 <= 0 THEN None ELSE Clip(y.f3, 1200, 4500)

\* y.depth is 10*log10(median/min) of the 10 ms / 5 ms frame energies
compute_closure_depth_db(y, onset_t) ==
  LET seg == safe_segment(y.size, onset_t, 90)
  IN  IF seg = None THEN None
      ELSE IF 1 + Max2(0, (seg - 10) \div 5) <= 3 THEN None
      ELSE Clip(y.depth, 0, 300)

compute_centroid_hz_liq(y, onset_t) ==
  LET seg == safe_segment(y.size, onset_t + 10, 60)
  IN  IF seg = None THEN None ELSE Clip(y.centroid, 0, 5000)

compute_frication_ratio_peak(y, onset_t) ==
  LET seg == safe_segment(y.size, onset_t, 120)
  IN  IF seg = None THEN None
      ELSE IF 1 + Max2(0, (seg - 20) \div 10) <= 2 THEN None
      ELSE Clip(y.fric, 0, 1000)

\* y.voiced is the mean of (f0 > 0) over the pitch frames, None when the
\* pitch track has no frame
compute_voiced_fraction(y, onset_t) ==
  LET seg == safe_segment(y.size, onset_t, 200)
  IN  IF seg = None THEN None
      ELSE IF y.voiced = None THEN None
      ELSE Clip(y.voiced, 0, 100)

\* gaussian_score of liquid.py, nasal.py and affricate.py (same body)
gaussian_score(x, mu, sigma) ==
  IF x = None THEN None ELSE GaussKernel(x, mu, sigma)

\* median of the values of a function with an odd number of keys
Median(f) ==
  LET half == (Cardinality(DOMAIN f) + 1) \div 2
      k == CHOOSE j \in DOMAIN f :
             /\ Cardinality({i \in DOMAIN f : f[i] <= f[j]}) >= half
             /\ Cardinality({i \in DOMAIN f : f[i] >= f[j]}) >= half
  IN  f[k]

\* _confidence_from_softscores, in thousandths
confidence_from_softscores(scores) ==
  IF DOMAIN scores = {} THEN 0
  ELSE Clip((SetMax({scores[k] : k \in DOMAIN scores}) - Median(scores)) \div 6, 0, 1000)

generate_feedback_liq(is_rejected, reject_reason, final_score) ==
  IF is_rejected
  THEN IF reject_reason \in {"too_fricative", "too_unvoiced", "no_tongue_contact"}
       THEN <<"rejected", reject_reason>>
       ELSE <<"try_again">>
  ELSE IF final_score >= 7500 THEN <<"good_job">>
  ELSE IF final_score >= 6000 THEN <<"close">>
  ELSE <<"not_quite_yet">>

\* the weighted sum of the five softscores (before the reject gates)
liquid_weighted_score(ss) ==
  RoundDiv(W_F3 * ss.f3 + W_CLOSURE * ss.closure_depth + W_CENTROID * ss.smoothness
           + W_FRIC * ss.non_fricative + W_VOICED * ss.voicing, 100)

\* liquid_reject_gates with the voicing gate tested before the frication gate
liquid_reject_gates_reordered(fric_pk, voiced_frac, depth_db) ==
  IF voiced_frac # None /\ voiced_frac <= GATE_VOICED_FRAC
  THEN [is_rejected |-> TRUE, reject_reason |-> "too_unvoiced"]
  ELSE IF fric_pk # None /\ fric_pk >= GATE_FRIC_PEAK
  THEN [is_rejected |-> TRUE, reject_reason |-> "too_fricative"]
  ELSE IF depth_db # None /\ depth_db <= GATE_CLOSURE_DEPTH
  THEN [is_rejected |-> TRUE, reject_reason |-> "no_tongue_contact"]
  ELSE [is_rejected |-> FALSE, reject_reason |-> ""]

\* the reject gates: [is_rejected, reject_reason]
liquid_reject_gates(fric_pk, voiced_frac, depth_db) ==
  IF fric_pk # None /\ fric_pk >= GATE_FRIC_PEAK
  THEN [is_rejected |-> TRUE, reject_reason |-> "too_fricative"]
  ELSE IF voiced_frac # None /\ voiced_frac <= GATE_VOICED_FRAC
  THEN [is_rejected |-> TRUE, reject_reason |-> "too_unvoiced"]
  ELSE IF depth_db # None /\ depth_db <= GATE_CLOSURE_DEPTH
  THEN [is_rejected |-> TRUE, reject_reason |-> "no_tongue_contact"]
  ELSE [is_rejected |-> FALSE, reject_reason |-> ""]

\* liquid_capped_score without the cap of line 418
liquid_capped_score_uncapped(final_score, is_rejected) == final_score

liquid_capped_score(final_score, is_rejected) ==
  IF is_rejected THEN Min2(final_score, REJECT_CAP) ELSE final_score

\* the trimmed signal the measurements of snd refer to
TrimmedSignal(snd, tr) == [size |-> tr.dur] @@ snd

analyze_liquid(snd, syl) ==
  IF syl \notin LIQUID_SET THEN [status |-> "error"]
  ELSE LET target_place == LIQUID_META[syl].place
           tr      == trim_by_intensity(snd, 40, 50)
           y_trim  == TrimmedSignal(snd, tr)
           onset_t == estimate_onset_t(y_trim)
       IN  IF onset_t = None
           THEN [status     |-> "ok",
                 syllable   |-> syl,
                 type       |-> "liquid",
                 targets    |-> [place |-> target_place, liquid |-> TRUE],
                 features   |-> <<>>,
                 evaluation |-> [final_score |-> 0, is_rejected |-> TRUE,
                                 reject_reason |-> "no_onset"],
                 feedback   |-> <<"no_clear_onset">>]
           ELSE LET f3          == estimate_f3_onset_hz(y_trim, onset_t)
                    depth_db    == compute_closure_depth_db(y_trim, onset_t)
                    centroid    == compute_centroid_hz_liq(y_trim, onset_t)
                    fric_pk     == compute_frication_ratio_peak(y_trim, onset_t)
                    voiced_frac == compute_voiced_fraction(y_trim, onset_t)
                    Z(v)        == IF v = None THEN 0 ELSE v
                    softscores  ==
                      [f3            |-> Z(gaussian_score(f3, REF_F3_ONSET_HZ, REF_F3_SIGMA)),
                       closure_depth |-> Z(gaussian_score(depth_db, REF_CLOSURE_DEPTH_DB,
                                                          REF_CLOSURE_DEPTH_SIGMA)),
                       smoothness    |-> Z(gaussian_score(centroid, REF_CENTROID_HZ_LIQ,
                                                          REF_CENTROID_SIGMA_LIQ)),
                       non_fricative |-> Z(gaussian_score(fric_pk, REF_FRIC_RATIO_PEAK,
                                                          REF_FRIC_RATIO_SIGMA)),
                       voicing       |-> Z(gaussian_score(voiced_frac, REF_VOICED_FRAC,
                                                          REF_VOICED_FRAC_SIGMA))]
                    gate        == liquid_reject_gates(fric_pk, voiced_frac, depth_db)
                    final_score == liquid_capped_score(liquid_weighted_score(softscores),
                                                       gate.is_rejected)
                IN  [status     |-> "ok",
                     syllable   |-> syl,
                     type       |-> "liquid",
                     targets    |-> [place |-> target_place, liquid |-> TRUE],
                     features   |-> [onset_t |-> onset_t, f3_onset_hz |-> f3,
                                     closure_depth_db |-> depth_db,
                                     spectral_centroid_hz |-> centroid,
                                     frication_ratio_peak |-> fric_pk,
                                     voiced_fraction |-> voiced_frac],
                     evaluation |-> [softscores    |-> softscores,
                                     final_score   |-> final_score,
                                     confidence    |-> confidence_from_softscores(softscores),
                                     is_rejected   |-> gate.is_rejected,
                                     reject_reason |-> gate.reject_reason],
                     feedback   |-> generate_feedback_liq(gate.is_rejected,
                                       gate.reject_reason, final_score)]

\* =====================================================================
\* Band envelopes and spectra of a signal
\*
\* y.bands  the band-passed signal's frame amplitudes (units of 1e-6):
\*          frames p .. p+w-1 (0-based) have [hf, lf] = hi, the others lo
\* y.psd    Welch power spectrum of the analysis slice of the raw signal,
\*          as the mean power (units of 1e-18) of the five bands
\*          [500,1500) [1500,2000) [2000,3500) [3500,4000) [4000,8000] Hz
\* =====================================================================

\* number of Welch bins (1024-point, 16 kHz) and mean frequency per band
BandBins == <<64, 32, 96, 32, 257>>

BandHz == <<992, 1742, 2742, 3742, 6000>>

\* |1 - 0.97 e^{-jw}|^2 at the band's mean frequency, in hundredths
PreemphGain == <<15, 44, 102, 174, 331>>

\* preemphasis(sig, 0.97) seen on the power spectrum
preemphasis(psd) == [b \in 1..5 |-> (psd[b] * PreemphGain[b]) \div 100]

\* np.maximum(pxx, 1e-18)
FloorPsd(psd) == [b \in 1..5 |-> Max2(psd[b], 1)]

\* sum of f[b] over b in the set B
RECURSIVE SumOver(_, _)
SumOver(f, B) ==
  IF B = {} THEN 0
  ELSE LET b == CHOOSE x \in B : TRUE IN f[b] + SumOver(f, B \ {b})

\* energy-weighted mean frequency over 500..8000 Hz of a floored spectrum
\* (weights are scaled down together when large, as floats would)
SpectralCentroid(pxx) ==
  LET w == [b \in 1..5 |-> BandBins[b] * pxx[b]]
      c == Max2(1, SumOver(w, 1..5) \div 100000)
      v == [b \in 1..5 |-> w[b] \div c]
  IN  SumOver([b \in 1..5 |-> BandHz[b] * v[b]], 1..5) \div SumOver(v, 1..5)

\* 1000 * 10^((k - 0.5)/10) for k = 1..35
DbTab ==
  <<1122, 1413, 1778, 2239, 2818, 3548, 4467, 5623, 7079, 8913, 11220, 14125,
    17783, 22387, 28184, 35481, 44668, 56234, 70795, 89125, 112202, 141254,
    177828, 223872, 281838, 354813, 446684, 562341, 707946, 891251, 1122018,
    1412538, 1778279, 2238721, 2818383>>

\* round(10 * log10(num / den)) for num >= den >= 1000000
DbRatioUp(num, den) ==
  LET r == num \div (den \div 1000)
  IN  Cardinality({k \in 1..Len(DbTab) : DbTab[k] <= r})

\* 10 * math.log10((e_high + 1e-12) / (e_low + 1e-12)), in whole dB
HfContrastDb(e_high, e_low) ==
  LET num == e_high + 1000000
      den == e_low + 1000000
  IN  IF num >= den THEN DbRatioUp(num, den) ELSE 0 - DbRatioUp(den, num)

\* sqrt(mean(seg*seg) + 1e-12) of a frame of amplitude a, in units of 1e-6
FrameRms(a) == IF a = 0 THEN 1 ELSE a

\* [hf, lf] amplitudes of frame i (0-based) of the band envelopes
BandFrame(y, i) ==
  IF y.bands.p <= i /\ i < y.bands.p + y.bands.w THEN y.bands.hi ELSE y.bands.lo

\* rms_hf / (rms_lf + 1e-12) of frame i, in thousandths
BandRatio(y, i) ==
  (FrameRms(BandFrame(y, i).hf) * 1000) \div FrameRms(BandFrame(y, i).lf)

\* =====================================================================
\* fricative.py
\* =====================================================================
FRICATIVE_META ==
  [sa |-> [fricative |-> "s"], ssa |-> [fricative |-> "ss"], ha |-> [fricative |-> "h"]]

FRICATIVE_SET == DOMAIN FRICATIVE_META

\* the order of the softscore loop: for lab in ("s", "ss", "h")
FricativeOrder == <<"s", "ss", "h">>

REF_CENTROID_HZ_FRIC == [s |-> 4800, ss |-> 6000, h |-> 2800]

REF_CENTROID_SIGMA_FRIC == 1700

REF_HF_CONTRAST_DB_FRIC == [h |-> 5, s |-> 15, ss |-> 20]

REF_HF_CONTRAST_DB_SIGMA == 8

REF_DURATION_MS == [s |-> 120, ss |-> 160, h |-> 90]

REF_DUR_SIGMA == 80

\* percent
SPECTRAL_WEIGHT == 85

DURATION_WEIGHT == 15

\* trim_by_intensity of fricative.py: as the others, but a peak intensity
\* <= 1e-6 dB returns the signal untrimmed
trim_by_intensity_fric(snd, silence_db_below_peak, pad) ==
  LET vals == snd.intensity
      vmax == IF Len(vals) = 0 THEN 0 ELSE SetMax({vals[i].db : i \in 1..Len(vals)})
  IN  IF snd.int_ok /\ vmax <= 0 THEN [dur |-> snd.dur, offset |-> 0]
      ELSE trim_by_intensity(snd, silence_db_below_peak, pad)

\* _rms_envelope of fricative.py: number of 25 ms frames at 10 ms hop
rms_frames_fric(size) == IF size < 25 THEN 0 ELSE 1 + (size - 25) \div 10

\* detect_frication_region_peak without the truncation to max_len_ms
detect_frication_region_peak_uncapped(y, max_len_ms, rel_thr) ==
  LET n        == rms_frames_fric(y.size)
      ratio    == [i \in 0..(n - 1) |-> BandRatio(y, i)]
      peak_val == SetMax({ratio[i] : i \in 0..(n - 1)})
      peak_idx == SetMin({i \in 0..(n - 1) : ratio[i] = peak_val})
      Above(i) == ratio[i] * 100 >= rel_thr * peak_val
      below_l  == {i \in 1..peak_idx : ~Above(i)}
      left     == IF below_l = {} THEN 0 ELSE SetMax(below_l)
      below_r  == {i \in peak_idx..(n - 2) : ~Above(i)}
      right    == IF below_r = {} THEN n - 1 ELSE SetMin(below_r)
      t_start  == left * 10
      t_end    == right * 10 + 25
  IN  IF n = 0 THEN [t_start |-> 0, t_end |-> 0]
      ELSE IF peak_val <= 0 THEN [t_start |-> 0, t_end |-> 0]
      ELSE [t_start |-> t_start,
            t_end   |-> t_end]

\* detect_frication_region_peak: [t_start, t_end] in ms
detect_frication_region_peak(y, max_len_ms, rel_thr) ==
  LET n        == rms_frames_fric(y.size)
      ratio    == [i \in 0..(n - 1) |-> BandRatio(y, i)]
      peak_val == SetMax({ratio[i] : i \in 0..(n - 1)})
      peak_idx == SetMin({i \in 0..(n - 1) : ratio[i] = peak_val})
      Above(i) == ratio[i] * 100 >= rel_thr * peak_val
      below_l  == {i \in 1..peak_idx : ~Above(i)}
      left     == IF below_l = {} THEN 0 ELSE SetMax(below_l)
      below_r  == {i \in peak_idx..(n - 2) : ~Above(i)}
      right    == IF below_r = {} THEN n - 1 ELSE SetMin(below_r)
      t_start  == left * 10
      t_end    == right * 10 + 25
  IN  IF n = 0 THEN [t_start |-> 0, t_end |-> 0]
      ELSE IF peak_val <= 0 THEN [t_start |-> 0, t_end |-> 0]
      ELSE [t_start |-> t_start,
            t_end   |-> IF t_end - t_start > max_len_ms THEN t_start + max_len_ms ELSE t_end]

\* compute_spectral_features: the returned dict
compute_spectral_features(y, t_start, t_end) ==
  LET a   == Max2(0, t_start)
      b   == Min2(y.size, t_end)
      pxx == FloorPsd(preemphasis(y.psd))
  IN  IF t_end <= t_start THEN [centroid |-> None, hf_contrast |-> None]
      ELSE IF b - a < 20 THEN [centroid |-> None, hf_contrast |-> None]
      ELSE [centroid       |-> SpectralCentroid(pxx),
            hf_contrast_db |-> Clip(HfContrastDb(BandBins[5] * pxx[5], BandBins[1] * pxx[1]),
                                    0 - 20, 40)]

\* gaussian_score of fricative.py
gaussian_score_fric(x, mu, sigma) == GaussKernel(x, mu, sigma)

score_spectral(centroid, hf_contrast, target) ==
  IF centroid = None \/ hf_contrast = None THEN None
  ELSE LET sc1 == gaussian_score_fric(centroid, REF_CENTROID_HZ_FRIC[target],
                                      REF_CENTROID_SIGMA_FRIC)
           sc2 == gaussian_score_fric(hf_contrast, REF_HF_CONTRAST_DB_FRIC[target],
                                      REF_HF_CONTRAST_DB_SIGMA)
       IN  RoundDiv(60 * sc1 + 40 * sc2, 100)

score_duration(dur_ms, target) ==
  IF dur_ms = None THEN None
  ELSE gaussian_score_fric(dur_ms, REF_DURATION_MS[target], REF_DUR_SIGMA)

final_score_fric(spec, dur) ==
  IF spec = None /\ dur = None THEN None
  ELSE IF dur = None THEN spec
  ELSE IF spec = None THEN dur
  ELSE RoundDiv(SPECTRAL_WEIGHT * spec + DURATION_WEIGHT * dur, 100)

generate_feedback_fric(target, detected, centroid, hf_contrast) ==
  IF centroid = None \/ hf_contrast = None THEN <<"could_not_capture">>
  ELSE IF detected = target THEN <<"good", target>>
  ELSE IF target \in {"s", "ss"} /\ detected = "h" THEN <<"sounds_breathy_like_h">>
  ELSE IF target = "h" /\ detected \in {"s", "ss"} THEN <<"sounds_like_s_hiss">>
  ELSE IF target = "ss" /\ detected = "s" THEN <<"sounds_like_s_too_soft">>
  ELSE IF target = "s" /\ detected = "ss" THEN <<"sounds_too_tense_like_ss">>
  ELSE <<"detected_as", detected>>

\* fricative_softscore from the spectral score alone
fricative_softscore_spectral(centroid, hf_contrast, duration_ms, lab) ==
  LET v == score_spectral(centroid, hf_contrast, lab)
  IN  IF v = None \/ v = 0 THEN 0 ELSE v

\* the softscore of one label: final_score(...) or 0.0
fricative_softscore(centroid, hf_contrast, duration_ms, lab) ==
  LET v == final_score_fric(score_spectral(centroid, hf_contrast, lab),
                            score_duration(duration_ms, lab))
  IN  IF v = None \/ v = 0 THEN 0 ELSE v

analyze_fricative(snd, syl) ==
  IF syl \notin FRICATIVE_SET THEN [status |-> "error"]
  ELSE LET target == FRICATIVE_META[syl].fricative
           tr     == trim_by_intensity_fric(snd, 30, 50)
           y_trim == TrimmedSignal(snd, tr)
           reg    == detect_frication_region_peak(y_trim, 220, 35)
           feats  == compute_spectral_features(y_trim, reg.t_start, reg.t_end)
           duration_ms == reg.t_end - reg.t_start
       IN  IF "hf_contrast_db" \notin DOMAIN feats
           THEN [status |-> "raised", exception |-> "KeyError"]
           ELSE LET spec_score == score_spectral(feats.centroid, feats.hf_contrast_db, target)
                    dur_score  == score_duration(duration_ms, target)
                    fs         == final_score_fric(spec_score, dur_score)
                    soft       == [lab \in {"s", "ss", "h"} |->
                                     fricative_softscore(feats.centroid, feats.hf_contrast_db,
                                                         duration_ms, lab)]
                    detected   == ArgMaxFirst(FricativeOrder, soft)
                    rest       == {"s", "ss", "h"} \ {detected}
                    second     == SetMax({soft[l] : l \in rest})
                IN  [status     |-> "ok",
                     syllable   |-> syl,
                     type       |-> "fricative",
                     targets    |-> [fricative |-> target],
                     features   |-> [spectral_centroid_hz |-> feats.centroid,
                                     hf_contrast  |-> feats.hf_contrast_db,
                                     duration_ms  |-> duration_ms,
                                     trim_offset_s |-> tr.offset,
                                     fric_start_t |-> reg.t_start + tr.offset,
                                     fric_end_t   |-> reg.t_end + tr.offset],
                     evaluation |-> [detected_fricative |-> detected,
                                     spectral_score |-> spec_score,
                                     duration_score |-> dur_score,
                                     final_score    |-> fs,
                                     softscores     |-> soft,
                                     confidence     |-> Clip((soft[detected] - second) \div 10,
                                                             0, 1000)],
                     feedback   |-> generate_feedback_fric(target, detected, feats.centroid,
                                                           feats.hf_contrast_db)]

\* =====================================================================
\* affricate.py
\* =====================================================================
AFFRICATE_META ==
  [ja |-> [affricate |-> "lenis"], jja |-> [affricate |-> "fortis"],
   cha |-> [affricate |-> "aspirated"]]

\* AFFRICATE_SET taking in the sibilant fricatives as well
AFFRICATE_SET_with_sibilants == DOMAIN AFFRICATE_META \cup {"sa", "ssa"}

AFFRICATE_SET == DOMAIN AFFRICATE_META

\* the order of the score loop: for lab in ("fortis", "lenis", "aspirated")
AffricateOrder == <<"fortis", "lenis", "aspirated">>

REF_VOT_MS == [fortis |-> 15, lenis |-> 40, aspirated |-> 80]

REF_VOT_SIGMA == 25

REF_FRIC_DUR_MS == [fortis |-> 80, lenis |-> 110, aspirated |-> 150]

REF_FRIC_DUR_SIGMA == 60

REF_CENTROID_HZ_AFF == [fortis |-> 6200, lenis |-> 5000, aspirated |-> 4200]

REF_CENTROID_SIGMA_AFF == 1700

REF_HF_CONTRAST_DB_AFF == [fortis |-> 22, lenis |-> 15, aspirated |-> 10]

REF_HF_CONTRAST_SIGMA == 8

\* percent
W_VOT == 30

W_SPEC == 45

W_FRIC_DUR == 25

VOT_CAP_MS == 160

\* _rms_envelope of affricate.py: number of frames (never 0)
rms_frames_aff(size) == 1 + Max2(0, size - 25) \div 10

\* _moving_average(x, 5) of a 0-based array x of n values, times 5:
\* np.convolve(x, ones(5)/5, "same") has max(n, 5) values centred on x
moving_average(x, n) ==
  IF n < 2 THEN [i \in 0..(n - 1) |-> 5 * x[i]]
  ELSE LET off == (Min2(n, 5) - 1) \div 2
       IN  [i \in 0..(Max2(n, 5) - 1) |->
              SumOver(x, Max2(0, i + off - 4)..Min2(n - 1, i + off))]

\* detect_frication_region: [t0, t1] in ms
detect_frication_region(y) ==
  LET Bounds(total, t0, i1) ==
        LET t1a == IF i1 * 10 <= t0 THEN t0 + 80 ELSE i1 * 10
            t1b == Min2(t1a, t0 + 180)
            t0c == Clip(t0, 0, Max2(0, total - 20))
        IN  [t0 |-> t0c, t1 |-> Clip(t1b, t0c + 20, total)]
      Walk(total, ratio_s, m, peak, idx_peak) ==
        LET below0 == {i \in 1..idx_peak : ratio_s[i] * 100 < 45 * peak}
            i0     == IF below0 = {} THEN 0 ELSE SetMax(below0)
            below1 == {i \in idx_peak..(m - 2) : ratio_s[i] * 100 < 20 * peak}
            i1     == IF below1 = {} THEN m - 1 ELSE SetMin(below1)
        IN  Bounds(total, i0 * 10, i1)
      Peak(total, ratio_s, m, peak) ==
        IF peak <= 0 THEN [t0 |-> 0, t1 |-> Min2(180, total)]
        ELSE Walk(total, ratio_s, m, peak,
                  SetMin({i \in 0..(m - 1) : ratio_s[i] = peak}))
      Smoothed(total, ratio_s, m) ==
        Peak(total, ratio_s, m, SetMax({ratio_s[i] : i \in 0..(m - 1)}))
      Ratio(ratio, n) ==
        Smoothed(y.size, moving_average(ratio, n),
                 IF n < 2 THEN n ELSE Max2(n, 5))
  IN  Ratio([i \in 0..(rms_frames_aff(y.size) - 1) |-> BandRatio(y, i)],
            rms_frames_aff(y.size))

\* y.pitch is the Praat pitch track (5 ms step, 60..500 Hz) of the trimmed
\* signal: frames v0 .. v0+vn-1 are voiced, at 120 Hz (alternating with
\* 250 Hz when jump); the 30 ms window around the first voiced frame has
\* periodicity per0, the windows around the later ones per1 (hundredths)
PitchFrames(size) == (size - 50) \div 5 + 1

PitchTime(size, i) == (size - (PitchFrames(size) - 1) * 5) \div 2 + 5 * i

PitchF0(y, i) ==
  IF y.pitch.v0 <= i /\ i < y.pitch.v0 + y.pitch.vn
  THEN IF y.pitch.jump /\ (i - y.pitch.v0) % 2 = 1 THEN 250 ELSE 120
  ELSE 0

\* _acf_periodicity_score of the window around frame i
acf_periodicity_score(y, i) == IF i = y.pitch.v0 THEN y.pitch.per0 ELSE y.pitch.per1

\* estimate_vot_ms of affricate.py with a second loop that takes the first
\* voiced frame whatever its periodicity
estimate_vot_ms_aff_any_voiced(y, burst_hint_t) ==
  LET total   == y.size
      burst_t == Clip(burst_hint_t - 10, 0, Max2(0, total - 20))
      nf      == PitchFrames(total)
      after   == {i \in 0..(nf - 1) : PitchTime(total, i) >= burst_t}
      Voiced(i) == PitchF0(y, i) > 0
      Spread(i) == SetMax({PitchF0(y, j) : j \in i..(i + 2)})
                     - SetMin({PitchF0(y, j) : j \in i..(i + 2)})
      strict  == {i \in after : /\ i + 2 < nf
                                /\ Voiced(i) /\ Voiced(i + 1) /\ Voiced(i + 2)
                                /\ Spread(i) <= 80
                                /\ acf_periodicity_score(y, i) >= 35}
      loose   == {i \in after : Voiced(i)}
      voiced_t == IF strict # {} THEN PitchTime(total, SetMin(strict))
                  ELSE IF loose # {} THEN PitchTime(total, SetMin(loose))
                  ELSE None
  IN  IF total < 60 THEN None
      ELSE IF after = {} THEN None
      ELSE IF voiced_t = None THEN None
      ELSE Max2(0, voiced_t - burst_t)

\* estimate_vot_ms(y, sr, burst_hint_t) of affricate.py with a finite hint
estimate_vot_ms_aff(y, burst_hint_t) ==
  LET total   == y.size
      burst_t == Clip(burst_hint_t - 10, 0, Max2(0, total - 20))
      nf      == PitchFrames(total)
      after   == {i \in 0..(nf - 1) : PitchTime(total, i) >= burst_t}
      Voiced(i) == PitchF0(y, i) > 0
      Spread(i) == SetMax({PitchF0(y, j) : j \in i..(i + 2)})
                     - SetMin({PitchF0(y, j) : j \in i..(i + 2)})
      strict  == {i \in after : /\ i + 2 < nf
                                /\ Voiced(i) /\ Voiced(i + 1) /\ Voiced(i + 2)
                                /\ Spread(i) <= 80
                                /\ acf_periodicity_score(y, i) >= 35}
      loose   == {i \in after : Voiced(i) /\ acf_periodicity_score(y, i) >= 35}
      voiced_t == IF strict # {} THEN PitchTime(total, SetMin(strict))
                  ELSE IF loose # {} THEN PitchTime(total, SetMin(loose))
                  ELSE None
  IN  IF total < 60 THEN None
      ELSE IF after = {} THEN None
      ELSE IF voiced_t = None THEN None
      ELSE Max2(0, voiced_t - burst_t)

\* compute_frication_features: [centroid, hf_db]
compute_frication_features(y, t0, t1) ==
  LET total   == y.size
      seg_t0a == Clip(t0 + 10, 0, Max2(0, total - 20))
      seg_t1a == Clip(t0 + 60, seg_t0a + 20, total)
      seg_t1b == IF seg_t1a > t1 THEN Max2(t0 + 20, t1) ELSE seg_t1a
      seg_t0  == IF seg_t1b <= seg_t0a THEN t0 ELSE seg_t0a
      seg_t1  == IF seg_t1b <= seg_t0a THEN t1 ELSE seg_t1b
      size    == Min2(total, seg_t1) - Min2(total, seg_t0)
      pxx_c   == FloorPsd(preemphasis(y.psd))
      pxx_h   == FloorPsd(y.psd)
      e_low   == BandBins[1] * pxx_h[1] + BandBins[2] * pxx_h[2]
      e_high  == BandBins[4] * pxx_h[4] + BandBins[5] * pxx_h[5]
      nothing == [centroid |-> None, hf_db |-> None]
  IN  IF t1 <= t0 THEN nothing
      ELSE IF size < 20 THEN nothing
      ELSE [centroid |-> SpectralCentroid(pxx_c),
            hf_db    |-> Clip(HfContrastDb(e_high, e_low), 0 - 30, 60)]

quality_label(score) ==
  IF score = None THEN "Unknown"
  ELSE IF score >= 8000 THEN "Excellent"
  ELSE IF score >= 6500 THEN "Good"
  ELSE IF score >= 4500 THEN "Close"
  ELSE "Needs practice"

\* generate_feedback affirming every production detected as its target
generate_feedback_aff_always_affirming(target, detected, target_score) ==
  LET quality == quality_label(target_score)
  IN  IF target = detected
      THEN <<quality, "this_sounds_like", target>>
      ELSE <<"right_now_it_sounds_like", detected, "aim_for", target>>

generate_feedback_aff(target, detected, target_score) ==
  LET quality == quality_label(target_score)
  IN  IF target = detected
      THEN IF quality \in {"Excellent", "Good"}
           THEN <<quality, "this_sounds_like", target>>
           ELSE <<quality, "basically_but_not_yet", target>>
      ELSE <<"right_now_it_sounds_like", detected, "aim_for", target>>

\* the composite score of one candidate label
affricate_score(vot, fric_dur, centroid, hf_db, lab) ==
  LET s_vot  == gaussian_score(vot, REF_VOT_MS[lab], REF_VOT_SIGMA)
      s_dur  == gaussian_score(fric_dur, REF_FRIC_DUR_MS[lab], REF_FRIC_DUR_SIGMA)
      s_cent == gaussian_score(centroid, REF_CENTROID_HZ_AFF[lab], REF_CENTROID_SIGMA_AFF)
      s_hf   == gaussian_score(hf_db, REF_HF_CONTRAST_DB_AFF[lab], REF_HF_CONTRAST_SIGMA)
      s_spec == IF s_cent # None /\ s_hf # None
                THEN RoundDiv(60 * s_cent + 40 * s_hf, 100) ELSE None
  IN  IF s_vot # None /\ s_spec # None /\ s_dur # None
      THEN RoundDiv(W_VOT * s_vot + W_SPEC * s_spec + W_FRIC_DUR * s_dur, 100)
      ELSE 0

analyze_affricate(snd, syl) ==
  LET Report(target, vot, fric_dur, ff, scores, detected) ==
        [status     |-> "ok",
         syllable   |-> syl,
         type       |-> "affricate",
         targets    |-> [affricate |-> target],
         features   |-> [vot_ms |-> vot, frication_duration_ms |-> fric_dur,
                         spectral_centroid_hz |-> ff.centroid,
                         hf_contrast_db |-> ff.hf_db],
         evaluation |-> [detected_affricate |-> detected,
                         softscores  |-> scores,
                         final_score |-> scores[target]],
         feedback   |-> generate_feedback_aff(target, detected, scores[target])]
      Decide(target, vot, fric_dur, ff, scores) ==
        Report(target, vot, fric_dur, ff, scores,
               ArgMaxFirst(AffricateOrder, scores))
      Score(target, vot_raw, fric_dur, ff) ==
        LET vot == IF vot_raw # None THEN Min2(vot_raw, VOT_CAP_MS) ELSE None
        IN  Decide(target, vot, fric_dur, ff,
                   [lab \in {"fortis", "lenis", "aspirated"} |->
                      affricate_score(vot, fric_dur, ff.centroid, ff.hf_db, lab)])
      Measure(target, y_trim, reg) ==
        Score(target, estimate_vot_ms_aff(y_trim, reg.t0), reg.t1 - reg.t0,
              compute_frication_features(y_trim, reg.t0, reg.t1))
      Locate(target, y_trim) ==
        Measure(target, y_trim, detect_frication_region(y_trim))
  IN  IF syl \notin AFFRICATE_SET THEN [status |-> "error"]
      ELSE Locate(AFFRICATE_META[syl].affricate,
                  TrimmedSignal(snd, trim_by_intensity(snd, 40, 50)))

\* =====================================================================
\* nasal.py
\* =====================================================================
NASAL_META == [ma |-> [place |-> "labial"], na |-> [place |-> "alveolar"]]

NASAL_SET == DOMAIN NASAL_META

\* the order of the place loop: for place in ("labial", "alveolar")
NasalPlaceOrder == <<"labial", "alveolar">>

REF_F2_ONSET_HZ == [labial |-> 1200, alveolar |-> 1700]

REF_F2_SIGMA == 350

\* hundredths
REF_LOW_RATIO == 72

REF_LOW_RATIO_SIGMA == 22

REF_CENTROID_HZ_NAS == 500

REF_CENTROID_SIGMA_NAS == 350

\* percent
W_PLACE == 55

W_NASALITY == 45

\* compute_nasal_window_features: y.low_ratio is E(0..500)/E(0..2000) in
\* hundredths and y.centroid the 0..3000 Hz centroid of the 10..80 ms window
compute_nasal_window_features(y, onset_t) ==
  LET seg == safe_segment(y.size, onset_t + 10, 70)
  IN  IF seg = None THEN [low_ratio |-> None, centroid |-> None]
      ELSE [low_ratio |-> Clip(y.low_ratio, 0, 100), centroid |-> Clip(y.centroid, 0, 3000)]

\* estimate_f2_onset_hz of nasal.py: y.f2 is the Burg F2 at onset + 60 ms
\* (None for NaN or a Praat error)
estimate_f2_onset_hz_nas(y, onset_t) ==
  IF y.f2 = None \/ y.f2 <= 0 THEN None ELSE Clip(y.f2, 500, 3500)

score_nasality(low_ratio, centroid) ==
  LET s_lr == gaussian_score(low_ratio, REF_LOW_RATIO, REF_LOW_RATIO_SIGMA)
      s_c  == gaussian_score(centroid, REF_CENTROID_HZ_NAS, REF_CENTROID_SIGMA_NAS)
  IN  IF s_lr = None \/ s_c = None THEN None
      ELSE RoundDiv(55 * s_lr + 45 * s_c, 100)

\* _confidence_from_scores: margin in hundredths of a point, overall in
\* thousandths
confidence_from_scores(place_target, place_other, nasality) ==
  LET c_place == Clip((place_target - 5000) \div 5, 0, 1000)
      c_nasal == Clip((nasality - 4000) \div 6, 0, 1000)
  IN  [place_margin |-> place_target - place_other,
       overall_confidence |-> Clip((6 * c_place + 4 * c_nasal) \div 10, 0, 1000)]

\* generate_feedback praising on the final score and the place margin alone
generate_feedback_nas_without_nasality(target_place, detected_place, final_score, place_target_score, place_other_score, nasality_score) ==
  LET place_margin == place_target_score - place_other_score
      is_correct   == target_place = detected_place
  IN  IF is_correct /\ final_score >= 7500 /\ place_margin >= 1000
      THEN <<"good_job", target_place>>
      ELSE IF is_correct
      THEN <<"close", target_place>>
           \o (IF nasality_score < 5500 THEN <<"keep_nasal_hum">> ELSE <<>>)
           \o (IF place_margin < 1000 THEN <<"start_with", target_place>> ELSE <<>>)
           \o (IF final_score < 6000 THEN <<"record_closer">> ELSE <<>>)
      ELSE <<"sounds_closer_to", detected_place, "for", target_place>>

generate_feedback_nas(target_place, detected_place, final_score, place_target_score, place_other_score, nasality_score) ==
  LET place_margin == place_target_score - place_other_score
      is_correct   == target_place = detected_place
  IN  IF is_correct /\ final_score >= 7500 /\ place_margin >= 1000 /\ nasality_score >= 5500
      THEN <<"good_job", target_place>>
      ELSE IF is_correct
      THEN <<"close", target_place>>
           \o (IF nasality_score < 5500 THEN <<"keep_nasal_hum">> ELSE <<>>)
           \o (IF place_margin < 1000 THEN <<"start_with", target_place>> ELSE <<>>)
           \o (IF final_score < 6000 THEN <<"record_closer">> ELSE <<>>)
      ELSE <<"sounds_closer_to", detected_place, "for", target_place>>

\* W_PLACE * s_place_target + W_NASALITY * s_nasal
nasal_final_score(s_place_target, s_nasal) ==
  RoundDiv(W_PLACE * s_place_target + W_NASALITY * s_nasal, 100)

analyze_nasal(snd, syl) ==
  IF syl \notin NASAL_SET THEN [status |-> "error"]
  ELSE LET target_place == NASAL_META[syl].place
           tr      == trim_by_intensity(snd, 40, 50)
           y_trim  == TrimmedSignal(snd, tr)
           onset_t == estimate_onset_t(y_trim)
       IN  IF onset_t = None
           THEN [status     |-> "ok",
                 syllable   |-> syl,
                 type       |-> "nasal",
                 targets    |-> [place |-> target_place, nasal |-> TRUE],
                 features   |-> [onset_t |-> None, f2_onset_hz |-> None,
                                 low_ratio_0_500_over_0_2000 |-> None,
                                 spectral_centroid_hz |-> None],
                 \* detected_place is None, written as the string "None"
                 evaluation |-> [detected_place |-> "None",
                                 softscores  |-> <<>>,
                                 final_score |-> 0,
                                 confidence  |-> [place_margin |-> 0,
                                                  overall_confidence |-> 0]],
                 feedback   |-> <<"no_clear_nasal_onset">>]
           ELSE LET wf   == compute_nasal_window_features(y_trim, onset_t)
                    f2   == estimate_f2_onset_hz_nas(y_trim, onset_t)
                    Z(v) == IF v = None THEN 0 ELSE v
                    place_scores == [place \in {"labial", "alveolar"} |->
                                       Z(gaussian_score(f2, REF_F2_ONSET_HZ[place],
                                                        REF_F2_SIGMA))]
                    detected_place == ArgMaxFirst(NasalPlaceOrder, place_scores)
                    s_nasal        == Z(score_nasality(wf.low_ratio, wf.centroid))
                    other_place    == IF target_place = "labial" THEN "alveolar" ELSE "labial"
                    s_place_target == place_scores[target_place]
                    s_place_other  == place_scores[other_place]
                    final_score    == nasal_final_score(s_place_target, s_nasal)
                IN  [status     |-> "ok",
                     syllable   |-> syl,
                     type       |-> "nasal",
                     targets    |-> [place |-> target_place, nasal |-> TRUE],
                     features   |-> [onset_t |-> onset_t, f2_onset_hz |-> f2,
                                     low_ratio_0_500_over_0_2000 |-> wf.low_ratio,
                                     spectral_centroid_hz |-> wf.centroid],
                     evaluation |-> [detected_place |-> detected_place,
                                     softscores  |-> [place_labial   |-> place_scores["labial"],
                                                      place_alveolar |-> place_scores["alveolar"],
                                                      nasality       |-> s_nasal],
                                     final_score |-> final_score,
                                     confidence  |-> confidence_from_scores(s_place_target,
                                                       s_place_other, s_nasal)],
                     feedback   |-> generate_feedback_nas(target_place, detected_place,
                                      final_score, s_place_target, s_place_other, s_nasal)]

\* =====================================================================
\* Inputs
\* =====================================================================

\* longest pitch track (listed frames) of a stop recording
MaxPitchFrames == 2

StopFrameTimes == {10, 20, 35, 55, 80, 120}

\* passes both gates; fails the HNR gate only; fails both intensity
\* gates; pitch outside (70, 400) Hz
StopFrameKinds ==
  {[f0 |-> 120, hnr |-> 10, drop |-> 0],
   [f0 |-> 120, hnr |-> 0,  drop |-> 45],
   [f0 |-> 120, hnr |-> 10, drop |-> 55],
   [f0 |-> 450, hnr |-> 10, drop |-> 0]}

StopFrames ==
  {[t |-> t, f0 |-> k.f0, hnr |-> k.hnr, drop |-> k.drop] :
     t \in StopFrameTimes, k \in StopFrameKinds}

StopPitchTracks ==
  UNION {{p \in [1..n -> StopFrames] : \A i \in 1..(n - 1) : p[i].t < p[i + 1].t} :
           n \in 0..MaxPitchFrames}

\* an all-zero buffer of 0.5 s: every intensity frame at Praat's floor
\* (-300 dB), no voiced pitch frame, zero band energies and spectrum
SilentIntensity == <<[t |-> 35, db |-> 0 - 300], [t |-> 465, db |-> 0 - 300]>>

SpeechIntensity ==
  <<[t |-> 35, db |-> 20], [t |-> 200, db |-> 70],
    [t |-> 300, db |-> 70], [t |-> 465, db |-> 20]>>

StopCalibration == [mean_hz |-> 200, sd_hz |-> 40]

StopF0Inputs ==
  {[f0_onset |-> None, calib |-> StopCalibration],
   [f0_onset |-> 180,  calib |-> StopCalibration],
   [f0_onset |-> 224,  calib |-> StopCalibration],
   [f0_onset |-> 240,  calib |-> StopCalibration],
   [f0_onset |-> 240,  calib |-> NoCalibration],
   [f0_onset |-> 240,  calib |-> [mean_hz |-> 200, sd_hz |-> 0]]}

SilentStopRecording ==
  [dur |-> 500, xmax |-> 500, int_ok |-> TRUE, intensity |-> SilentIntensity,
   pitch |-> <<>>, f2 |-> None, f0_onset |-> None, calib |-> NoCalibration]

\* the formant and pitch measurements at the vowel onset: each F2 with one
\* F0 input, each F0 input with one F2
StopOnsetInputs ==
  {m \in [f2 : {None, 1200, 1450, 2200}, f : StopF0Inputs] :
     m.f2 = 1450 \/ m.f.f0_onset = 180}

StopRecordings ==
  {SilentStopRecording} \cup
  {[dur |-> 500, xmax |-> 500, int_ok |-> TRUE, intensity |-> SpeechIntensity,
    pitch |-> p, f2 |-> m.f2, f0_onset |-> m.f.f0_onset, calib |-> m.f.calib] :
     p \in StopPitchTracks, m \in StopOnsetInputs}

SilentLiquidRecording ==
  [dur |-> 500, int_ok |-> TRUE, intensity |-> SilentIntensity,
   env_peak |-> 0, env_first |-> None,
   f3 |-> None, depth |-> 0, centroid |-> 0, fric |-> 0, voiced |-> None]

LiquidRecordings ==
  {SilentLiquidRecording,
   \* shorter than to_intensity's window and than the 50 ms onset minimum
   [SilentLiquidRecording EXCEPT !.dur = 40, !.int_ok = FALSE, !.intensity = <<>>,
                                 !.env_peak = 1, !.env_first = 5],
   \* a click: the smoothed envelope never reaches 6% of the raw peak
   [SilentLiquidRecording EXCEPT !.intensity = SpeechIntensity, !.env_peak = 1]} \cup
  {[dur |-> 500, int_ok |-> TRUE, intensity |-> SpeechIntensity,
    env_peak |-> 1, env_first |-> on,
    f3 |-> f3, depth |-> d, centroid |-> c, fric |-> fr, voiced |-> v] :
     on \in {20, 165, 175, 185}, f3 \in {None, 900, 2500, 5000},
     d \in {0, 35, 36, 100}, c \in {900, 2500}, fr \in {120, 259, 260},
     v \in {None, 35, 36, 70}}

\* no band energy anywhere, a burst of hiss over a vowel-like floor, and
\* steady hiss
NoBands == [p |-> 0, w |-> 0, hi |-> [hf |-> 0, lf |-> 0], lo |-> [hf |-> 0, lf |-> 0]]

BandCurves ==
  {[p |-> p, w |-> w, hi |-> [hf |-> 1000, lf |-> 50], lo |-> lo] :
     p \in {0, 3, 8}, w \in {1, 4, 30},
     lo \in {[hf |-> 50, lf |-> 1000], [hf |-> 400, lf |-> 50]}}

\* band powers of a silent, hissing, sharper, breathy, vowel-like and
\* white slice
ZeroPsd == <<0, 0, 0, 0, 0>>

PsdShapes ==
  {ZeroPsd,
   <<1000, 5000, 50000, 200000, 1000000>>,
   <<20000, 50000, 200000, 300000, 300000>>,
   <<200000, 300000, 300000, 100000, 20000>>,
   <<1000000, 300000, 50000, 5000, 500>>,
   <<1000000, 1000000, 1000000, 1000000, 1000000>>}

\* 480 ms of speech in a 0.5 s recording
LongIntensity ==
  <<[t |-> 35, db |-> 60], [t |-> 200, db |-> 70], [t |-> 465, db |-> 60]>>

\* a faint click: peak intensity 0 dB, digital silence around it
FaintIntensity ==
  <<[t |-> 35, db |-> 0 - 300], [t |-> 200, db |-> 0], [t |-> 465, db |-> 0 - 300]>>

SilentFricativeRecording ==
  [dur |-> 500, int_ok |-> TRUE, intensity |-> SilentIntensity,
   bands |-> NoBands, psd |-> ZeroPsd]

FricativeRecordings ==
  {SilentFricativeRecording} \cup
  \* recordings around the 25 ms envelope window; to_intensity raises
  {[SilentFricativeRecording EXCEPT !.dur = d, !.int_ok = FALSE, !.intensity = <<>>,
                                    !.bands = b, !.psd = psd] :
     d \in {10, 24, 25, 40}, b \in {NoBands} \cup BandCurves, psd \in PsdShapes} \cup
  {[dur |-> 500, int_ok |-> TRUE, intensity |-> i, bands |-> b, psd |-> psd] :
     i \in {SpeechIntensity, LongIntensity, FaintIntensity}, b \in BandCurves,
     psd \in PsdShapes}

NoPitch == [v0 |-> 0, vn |-> 0, jump |-> FALSE, per0 |-> 0, per1 |-> 0]

PitchTracks ==
  {NoPitch} \cup
  {[v0 |-> v0, vn |-> vn, jump |-> j, per0 |-> p0, per1 |-> p1] :
     v0 \in {0, 3, 8, 16, 34}, vn \in {1, 3, 4}, j \in BOOLEAN,
     p0 \in {20, 50}, p1 \in {20, 50}}

SilentAffricateRecording ==
  [dur |-> 500, int_ok |-> TRUE, intensity |-> SilentIntensity,
   bands |-> NoBands, psd |-> ZeroPsd, pitch |-> NoPitch]

AffricateRecordings ==
  {SilentAffricateRecording} \cup
  {[SilentAffricateRecording EXCEPT !.dur = d, !.int_ok = FALSE, !.intensity = <<>>,
                                    !.psd = psd] :
     d \in {10, 30, 70}, psd \in PsdShapes} \cup
  {[dur |-> 500, int_ok |-> TRUE, intensity |-> i, bands |-> b, psd |-> psd,
    pitch |-> pt] :
     i \in {SpeechIntensity, LongIntensity},
     b \in {c \in BandCurves : c.w # 30 /\ c.lo.hf = 50},
     psd \in {q \in PsdShapes : q[1] # q[5]}, pt \in PitchTracks}

\* the intensity track of the 200 ms slice that trimming cuts out of a
\* recording with track SpeechIntensity: 50 ms of padding at both ends
TrimmedSpeechIntensity ==
  <<[t |-> 35, db |-> 20], [t |-> 50, db |-> 70],
    [t |-> 150, db |-> 70], [t |-> 165, db |-> 20]>>

SilentNasalRecording ==
  [dur |-> 500, int_ok |-> TRUE, intensity |-> SilentIntensity,
   env_peak |-> 0, env_first |-> None, f2 |-> None, low_ratio |-> 0, centroid |-> 0]

NasalRecordings ==
  {SilentNasalRecording,
   [SilentNasalRecording EXCEPT !.dur = 40, !.int_ok = FALSE, !.intensity = <<>>,
                                !.env_peak = 1, !.env_first = 5],
   [SilentNasalRecording EXCEPT !.intensity = SpeechIntensity, !.env_peak = 1],
   \* a recording that was trimmed before
   [dur |-> 200, int_ok |-> TRUE, intensity |-> TrimmedSpeechIntensity,
    env_peak |-> 1, env_first |-> 70, f2 |-> 1200, low_ratio |-> 72, centroid |-> 500]} \cup
  {[dur |-> 500, int_ok |-> TRUE, intensity |-> SpeechIntensity,
    env_peak |-> 1, env_first |-> on, f2 |-> f2, low_ratio |-> lr, centroid |-> c] :
     on \in {20, 165, 175}, f2 \in {None, 400, 1200, 1450, 1700, 2500, 4000},
     lr \in {0, 50, 72, 100}, c \in {300, 500, 1500, 3000}}

\* the result before the call has returned
Pending == [status |-> "pending"]

\* =====================================================================
\* Specification: one analyze_* call on one recording
\* =====================================================================
Init ==
  /\ module = ModuleObjects
  /\ calls = <<>>
  /\ pc = "call"
  /\ result = Pending
  /\ \/ analyzer = "stop" /\ syllable \in STOP_SET /\ rec \in StopRecordings
     \/ analyzer = "fricative" /\ syllable \in FRICATIVE_SET /\ rec \in FricativeRecordings
     \/ analyzer = "affricate" /\ syllable \in AFFRICATE_SET /\ rec \in AffricateRecordings
     \/ analyzer = "nasal" /\ syllable \in NASAL_SET /\ rec \in NasalRecordings
     \/ analyzer = "liquid" /\ syllable \in LIQUID_SET /\ rec \in LiquidRecordings

AnalyzeStop ==
  /\ pc = "call"
  /\ analyzer = "stop"
  /\ result' = analyze_stop(rec, syllable, rec.calib)
  /\ pc' = "returned"
  /\ UNCHANGED <<analyzer, syllable, rec, module, calls>>

\* the call either returns its result or ends with the KeyError raised
AnalyzeFricative ==
  /\ pc = "call"
  /\ analyzer = "fricative"
  /\ result' = analyze_fricative(rec, syllable)
  /\ pc' = IF result'.status = "raised" THEN "raised" ELSE "returned"
  /\ UNCHANGED <<analyzer, syllable, rec, module, calls>>

AnalyzeAffricate ==
  /\ pc = "call"
  /\ analyzer = "affricate"
  /\ result' = analyze_affricate(rec, syllable)
  /\ pc' = "returned"
  /\ UNCHANGED <<analyzer, syllable, rec, module, calls>>

AnalyzeNasal ==
  /\ pc = "call"
  /\ analyzer = "nasal"
  /\ result' = analyze_nasal(rec, syllable)
  /\ pc' = "returned"
  /\ UNCHANGED <<analyzer, syllable, rec, module, calls>>

AnalyzeLiquid ==
  /\ pc = "call"
  /\ analyzer = "liquid"
  /\ result' = analyze_liquid(rec, syllable)
  /\ pc' = "returned"
  /\ UNCHANGED <<analyzer, syllable, rec, module, calls>>

Next ==
  \/ AnalyzeStop
  \/ AnalyzeFricative
  \/ AnalyzeAffricate
  \/ AnalyzeNasal
  \/ AnalyzeLiquid

Spec == Init /\ [][Next]_vars


\* =====================================================================
\* Specification: the service's worker threads (utils.py).  Every upload
\* is analysed by one analyze_* call in a thread of the pool
\* (run_in_threadpool), so calls interleave.  A call is queued, then
\* running (sound loaded), then returned.
\* =====================================================================

\* number of calls in flight
MaxCalls == 2

Threads == 1..MaxCalls

\* an uploaded wav as each analyzer's signal-processing calls see it: the
\* intensity track i, the F2 at the stop's voicing onset f2
UploadedWav(i, f2) ==
  [stop |-> [dur |-> 500, xmax |-> 500, int_ok |-> TRUE, intensity |-> i,
             pitch |-> <<[t |-> 35, f0 |-> 120, hnr |-> 10, drop |-> 0]>>,
             f2 |-> f2, f0_onset |-> 180, calib |-> StopCalibration],
   fricative |-> [dur |-> 500, int_ok |-> TRUE, intensity |-> i,
                  bands |-> [p |-> 3, w |-> 4, hi |-> [hf |-> 1000, lf |-> 50],
                             lo |-> [hf |-> 50, lf |-> 1000]],
                  psd |-> <<1000, 5000, 50000, 200000, 1000000>>],
   affricate |-> [dur |-> 500, int_ok |-> TRUE, intensity |-> i,
                  bands |-> [p |-> 3, w |-> 4, hi |-> [hf |-> 1000, lf |-> 50],
                             lo |-> [hf |-> 50, lf |-> 1000]],
                  psd |-> <<1000, 5000, 50000, 200000, 1000000>>,
                  pitch |-> [v0 |-> 16, vn |-> 4, jump |-> FALSE, per0 |-> 50, per1 |-> 50]],
   nasal |-> [dur |-> 500, int_ok |-> TRUE, intensity |-> i,
              env_peak |-> 1, env_first |-> 20, f2 |-> 1200, low_ratio |-> 72,
              centroid |-> 500],
   liquid |-> [dur |-> 500, int_ok |-> TRUE, intensity |-> i,
               env_peak |-> 1, env_first |-> 20, f3 |-> 2500, depth |-> 100,
               centroid |-> 900, fric |-> 120, voiced |-> 70]]

\* what the calls are given: a syllable of each class with one recording
CallInputs ==
  {[analyzer |-> x[1], syllable |-> x[2],
    rec |-> UploadedWav(SpeechIntensity, 1450)[x[1]]] :
     x \in {<<"stop", "ga">>, <<"stop", "ba">>, <<"fricative", "sa">>,
            <<"affricate", "ja">>, <<"nasal", "ma">>, <<"liquid", "ra">>}}

\* the analyze_* call of input c, reading the module-level objects as they
\* are when it runs
AnalyzeCallOf(c) ==
  IF c.analyzer = "stop" THEN analyze_stop(c.rec, c.syllable, c.rec.calib)
  ELSE IF c.analyzer = "fricative" THEN analyze_fricative(c.rec, c.syllable)
  ELSE IF c.analyzer = "affricate" THEN analyze_affricate(c.rec, c.syllable)
  ELSE IF c.analyzer = "nasal" THEN analyze_nasal(c.rec, c.syllable)
  ELSE analyze_liquid(c.rec, c.syllable)

\* module_after_analyze with evaluate_stop moving the centre of the target
\* place towards the measured F2 onset
module_after_analyze_adapting(mod, c) ==
  IF c.analyzer = "stop"
  THEN [mod EXCEPT !.PLACE_F2_CENTERS_HZ[STOP_META[c.syllable].place] = c.rec.f2]
  ELSE mod

\* the module-level objects after the analyze_* call of input c: no
\* analyzer assigns a module-level name or writes into a table
module_after_analyze(mod, c) == mod

\* alone is the result the call gives when nothing else runs (the module
\* objects are as imported); edited records that the caller changed the
\* returned result
InitCalls ==
  /\ module = ModuleObjects
  /\ analyzer = "service"
  /\ syllable = ""
  /\ rec = <<>>
  /\ pc = "service"
  /\ result = Pending
  /\ \E inputs \in [Threads -> CallInputs] :
       calls = [t \in Threads |->
                  [pc |-> "queued", input |-> inputs[t], result |-> Pending,
                   alone |-> AnalyzeCallOf(inputs[t]), edited |-> FALSE]]

\* a worker thread picks the call up and loads its sound
CallStart(t) ==
  /\ calls[t].pc = "queued"
  /\ calls' = [calls EXCEPT ![t].pc = "running"]
  /\ UNCHANGED <<analyzer, syllable, rec, pc, result, module>>

\* the analyze_* call runs and returns its result
CallAnalyze(t) ==
  /\ calls[t].pc = "running"
  /\ calls' = [calls EXCEPT ![t].pc = "returned",
                            ![t].result = AnalyzeCallOf(calls[t].input)]
  /\ module' = module_after_analyze(module, calls[t].input)
  /\ UNCHANGED <<analyzer, syllable, rec, pc, result>>

NextCalls == \E t \in Threads : CallStart(t) \/ CallAnalyze(t)

SpecCalls == InitCalls /\ [][NextCalls]_vars

\* =====================================================================
\* Specification: the worker threads and a caller that edits the dicts of
\* a returned stop result in place.  An edit of a dict the result owns
\* changes that result; an edit through a reference changes the object
\* referred to.
\* =====================================================================
IsRef(x) == "ref" \in DOMAIN x

\* result["evaluation"]["place_softscores"]["labial"] = 0.0
ClientEditsSoftscores(t) ==
  /\ calls[t].pc = "returned"
  /\ calls[t].input.analyzer = "stop"
  /\ ~calls[t].edited
  /\ calls' = [calls EXCEPT ![t].edited = TRUE,
                            ![t].result.evaluation.place_softscores["labial"] = 0]
  /\ UNCHANGED <<analyzer, syllable, rec, pc, result, module>>

\* result["evaluation"]["plots"]["f2_centers_hz"]["labial"] = 2200.0
ClientEditsPlotCenters(t) ==
  /\ calls[t].pc = "returned"
  /\ calls[t].input.analyzer = "stop"
  /\ ~calls[t].edited
  /\ LET centers == calls[t].result.evaluation.plots.f2_centers_hz
     IN  IF IsRef(centers)
         THEN /\ module' = [module EXCEPT ![centers.ref]["labial"] = 2200]
              /\ calls' = [calls EXCEPT ![t].edited = TRUE]
         ELSE /\ calls' = [calls EXCEPT ![t].edited = TRUE,
                             ![t].result.evaluation.plots.f2_centers_hz["labial"] = 2200]
              /\ UNCHANGED module
  /\ UNCHANGED <<analyzer, syllable, rec, pc, result>>

NextClient ==
  \E t \in Threads :
    \/ CallStart(t)
    \/ CallAnalyze(t)
    \/ ClientEditsSoftscores(t)
    \/ ClientEditsPlotCenters(t)

SpecClient == InitCalls /\ [][NextClient]_vars


\* =====================================================================
\* Specification: the consonant entry point.  run_consonant_analysis
\* (utils.py) looks the symbol's example syllable up and hands it to the
\* dispatcher analyze_consonant.
\* =====================================================================

\* config.py; symbols and syllables romanized
CONSONANT_SYMBOL_TO_SYLLABLE ==
  [g |-> "ga", n |-> "na", d |-> "da", r |-> "ra", m |-> "ma", b |-> "ba",
   s |-> "sa", j |-> "ja", ch |-> "cha", k |-> "ka", t |-> "ta", p |-> "pa",
   h |-> "ha", kk |-> "kka", tt |-> "tta", pp |-> "ppa", ss |-> "ssa",
   jj |-> "jja"]

\* the category sets, by the "type" of their analyzer's result
CategorySets ==
  [stop |-> STOP_SET, fricative |-> FRICATIVE_SET, affricate |-> AFFRICATE_SET,
   nasal |-> NASAL_SET, liquid |-> LIQUID_SET]

\* analyze_consonant(wav_path, syllable, f0_calibration): category-membership
\* lookup, then the category's top-level analyzer
analyze_consonant(wav, syl, f0_calibration) ==
  IF syl \in STOP_SET THEN analyze_stop(wav.stop, syl, f0_calibration)
  ELSE IF syl \in FRICATIVE_SET THEN analyze_fricative(wav.fricative, syl)
  ELSE IF syl \in AFFRICATE_SET THEN analyze_affricate(wav.affricate, syl)
  ELSE IF syl \in NASAL_SET THEN analyze_nasal(wav.nasal, syl)
  ELSE IF syl \in LIQUID_SET THEN analyze_liquid(wav.liquid, syl)
  ELSE [status |-> "error"]

UploadedWavs ==
  {UploadedWav(i, f2) : i \in {SpeechIntensity, SilentIntensity}, f2 \in {1450, 2100}}

InitRoute ==
  /\ module = ModuleObjects
  /\ calls = <<>>
  /\ pc = "call"
  /\ result = Pending
  /\ analyzer = "consonant"
  /\ \E symbol \in DOMAIN CONSONANT_SYMBOL_TO_SYLLABLE :
       syllable = CONSONANT_SYMBOL_TO_SYLLABLE[symbol]
  /\ rec \in UploadedWavs

AnalyzeConsonant ==
  /\ pc = "call"
  /\ analyzer = "consonant"
  /\ result' = analyze_consonant(rec, syllable, rec.stop.calib)
  /\ pc' = IF result'.status = "raised" THEN "raised" ELSE "returned"
  /\ UNCHANGED <<analyzer, syllable, rec, module, calls>>

SpecRoute == InitRoute /\ [][AnalyzeConsonant]_vars


\* =====================================================================
\* Specification: update_progress (database.py) called by concurrent
\* analyze-sound requests for one (user, sound).  Every call has its own
\* connection and transaction; its statements are the steps.  rows are the
\* committed progress values of the (user, sound); unique tells whether
\* the table (its schema is not part of the repository) has a unique
\* constraint on (userid, sound).
\* =====================================================================
InitProgress ==
  /\ analyzer = "service"
  /\ syllable = ""
  /\ rec = <<>>
  /\ pc = "service"
  /\ result = Pending
  /\ \E rows \in {<<>>, <<50>>}, unique \in BOOLEAN :
       module = [rows |-> rows, initial |-> rows, unique |-> unique]
  /\ \E scores \in [Threads -> {40, 70, 90}] :
       calls = [t \in Threads |-> [pc |-> "update", score |-> scores[t]]]

\* UPDATE progress SET progress = GREATEST(progress, score) WHERE ...; with
\* a row matched (rowcount > 0) only the commit is left
ProgressUpdate(t) ==
  /\ calls[t].pc = "update"
  /\ module' = [module EXCEPT !.rows =
                  [i \in 1..Len(module.rows) |-> Max2(module.rows[i], calls[t].score)]]
  /\ calls' = [calls EXCEPT ![t].pc = IF Len(module.rows) = 0 THEN "insert" ELSE "done"]
  /\ UNCHANGED <<analyzer, syllable, rec, pc, result>>

\* if cur.rowcount == 0: INSERT INTO progress ...; commit.  Under a unique
\* constraint the INSERT raises when a row has been committed meanwhile.
ProgressInsert(t) ==
  /\ calls[t].pc = "insert"
  /\ IF module.unique /\ Len(module.rows) > 0
     THEN /\ calls' = [calls EXCEPT ![t].pc = "raised"]
          /\ UNCHANGED module
     ELSE /\ calls' = [calls EXCEPT ![t].pc = "done"]
          /\ module' = [module EXCEPT !.rows = Append(module.rows, calls[t].score)]
  /\ UNCHANGED <<analyzer, syllable, rec, pc, result>>

NextProgress == \E t \in Threads : ProgressUpdate(t) \/ ProgressInsert(t)

SpecProgress == InitProgress /\ [][NextProgress]_vars


\* =====================================================================
\* Specification: the upload endpoints (routes/analysis.py, utils.py), one
\* request at a time.  module.disk holds the names of the temporary files
\* on disk, module.formant_samples and module.formants the calibration
\* tables of the user (sample keys <<sound, sample_num>>, sounds with
\* statistics).  calls.uploads are the calibration samples the user has
\* uploaded as analysable audio, calls.last is the last response.
\* An upload is "empty" (no bytes), "garbled" (not decodable) or "speech".
\* =====================================================================

\* temporary files left on disk before the service stops taking requests
MaxTempFiles == 3

\* NamedTemporaryFile(delete=False) creates the file; an empty upload
\* raises after it was created
save_upload_to_temp(disk, content) ==
  LET tmp == CHOOSE n \in 1..(Cardinality(disk) + 1) : n \notin disk
  IN  IF content = "empty"
      THEN [disk |-> disk \cup {tmp}, raised |-> "HTTPException", path |-> 0]
      ELSE [disk |-> disk \cup {tmp}, raised |-> "none", path |-> tmp]

\* the WAV file of run_consonant_analysis: created, then removed in the
\* finally clause whether conversion and analysis succeed or not
run_consonant_analysis(disk, content) ==
  LET wav_path == CHOOSE n \in 1..(Cardinality(disk) + 1) : n \notin disk
      created  == disk \cup {wav_path}
  IN  [disk   |-> created \ {wav_path},
       raised |-> IF content = "garbled" THEN "ValueError" ELSE "none"]

\* personalization.py: user_calib are the sounds of the user's formants rows
get_personalized_reference(user_calib) ==
  IF user_calib = {} \/ ~({"a", "e", "u"} \subseteq user_calib) THEN "None"
  ELSE "table"

\* run_vowel_analysis(audio_path, symbol, userid): userid 0 stands for None
run_vowel_analysis(content, userid, user_calib) ==
  IF content = "garbled" THEN [raised |-> "ValueError"]
  ELSE [raised    |-> "none",
        reference |-> IF userid # 0 /\ get_personalized_reference(user_calib) # "None"
                      THEN "personalized" ELSE "standard",
        f1 |-> 300, f2 |-> 2300, f0 |-> 200]

\* database.py: def save_calibration_sample(user_id, sound, sample_num, f1,
\* f2); args are the positional arguments of the call
save_calibration_sample(args, formant_samples) ==
  IF Len(args) # 5 THEN [raised |-> "TypeError", formant_samples |-> formant_samples]
  ELSE [raised |-> "none",
        formant_samples |-> formant_samples \cup {<<args[2], args[3]>>}]

InitRequests ==
  /\ analyzer = "service"
  /\ syllable = ""
  /\ rec = <<>>
  /\ pc = "service"
  /\ result = Pending
  /\ module = [disk |-> {}, formant_samples |-> {}, formants |-> {}]
  /\ calls = [uploads |-> {},
              last |-> [endpoint |-> "none", status |-> 0, reference |-> "none",
                        calibration_complete |-> FALSE]]

\* POST /api/calibration for an existing user
CalibrationUpload ==
  /\ Cardinality(module.disk) < MaxTempFiles
  /\ \E filename \in BOOLEAN, content \in {"empty", "garbled", "speech"},
        sound \in {"i", "u", "a"}, sample_num \in 1..3 :
       LET Respond(status, disk, samples, formants, complete) ==
             /\ module' = [disk |-> disk, formant_samples |-> samples,
                           formants |-> formants]
             /\ calls' = [uploads |->
                            IF filename /\ content = "speech" /\ sound \in {"i", "u"}
                            THEN calls.uploads \cup {<<sound, sample_num>>}
                            ELSE calls.uploads,
                          last |-> [endpoint |-> "calibration", status |-> status,
                                    reference |-> "none",
                                    calibration_complete |-> complete]]
           Fail(status, disk) ==
             Respond(status, disk, module.formant_samples, module.formants, FALSE)
           Finalize(disk, samples) ==
             LET formants ==
                   IF Cardinality({k \in samples : k[1] = sound}) >= 3
                   THEN module.formants \cup {sound} ELSE module.formants
             IN  Respond(200, disk, samples, formants,
                         Cardinality(formants \cap {"a", "i", "u", "eo", "e"}) >= 2)
           Save(disk, measured) ==
             LET saved == save_calibration_sample(
                            <<7, sound, sample_num, measured.f1, measured.f2, measured.f0>>,
                            module.formant_samples)
             IN  IF saved.raised # "none" THEN Fail(500, disk)
                 ELSE Finalize(disk, saved.formant_samples)
           \* the try block; disk is what the finally clause leaves
           Measure(disk, measured) ==
             IF measured.raised # "none" THEN Fail(500, disk)
             ELSE IF measured.f1 = None \/ measured.f2 = None THEN Fail(422, disk)
             ELSE Save(disk, measured)
           Saved(temp) ==
             IF temp.raised # "none" THEN Fail(400, temp.disk)
             ELSE Measure(temp.disk \ {temp.path},
                          run_vowel_analysis(content, 0, module.formants))
       IN  IF ~filename THEN Fail(400, module.disk)
           ELSE IF sound \notin {"i", "u"} THEN Fail(400, module.disk)
           ELSE Saved(save_upload_to_temp(module.disk, content))
  /\ UNCHANGED <<analyzer, syllable, rec, pc, result>>

\* POST /api/analyze-sound (userid 7) and /api/analyze-sound-guest (0):
\* analyse_uploaded_audio
AnalyzeSound ==
  /\ Cardinality(module.disk) < MaxTempFiles
  /\ \E filename \in BOOLEAN, content \in {"empty", "garbled", "speech"},
        kind \in {"vowel", "consonant", "unsupported"}, userid \in {0, 7} :
       LET Respond(status, disk, reference) ==
             /\ module' = [module EXCEPT !.disk = disk]
             /\ calls' = [calls EXCEPT !.last =
                            [endpoint |-> "analyze-" \o kind, status |-> status,
                             reference |-> reference, calibration_complete |-> FALSE]]
           Vowel(disk, analysed) ==
             IF analysed.raised # "none" THEN Respond(422, disk, "none")
             ELSE Respond(200, disk, IF userid = 0 THEN "guest" ELSE analysed.reference)
           Consonant(temp_path, analysed) ==
             IF analysed.raised # "none" THEN Respond(422, analysed.disk \ {temp_path}, "none")
             ELSE Respond(200, analysed.disk \ {temp_path}, "none")
           Saved(temp) ==
             IF temp.raised # "none" THEN Respond(400, temp.disk, "none")
             ELSE IF kind = "vowel"
                  THEN Vowel(temp.disk \ {temp.path},
                             run_vowel_analysis(content, userid, module.formants))
                  ELSE Consonant(temp.path, run_consonant_analysis(temp.disk, content))
       IN  IF ~filename THEN Respond(400, module.disk, "none")
           ELSE IF kind = "unsupported" THEN Respond(400, module.disk, "none")
           ELSE Saved(save_upload_to_temp(module.disk, content))
  /\ UNCHANGED <<analyzer, syllable, rec, pc, result>>

NextRequests == CalibrationUpload \/ AnalyzeSound

SpecRequests == InitRequests /\ [][NextRequests]_vars


\* =====================================================================
\* Properties of the returned results
\* =====================================================================

\* the call of analyzer a has returned a result dict (not the error dict)
Returned(a) == pc = "returned" /\ analyzer = a /\ result.status = "ok"

AnyReturned == pc = "returned" /\ result.status = "ok"

\* x is a number of points in [0, 100]
IsScore(x) == x # None /\ 0 <= x /\ x <= 10000

\* the all-zero 0.5 s buffer, as each analyzer's measurements see it
SilentRecording ==
  rec \in {SilentStopRecording, SilentFricativeRecording, SilentAffricateRecording,
           SilentNasalRecording, SilentLiquidRecording}

\* the score boards under result.evaluation
ScoreBoard ==
  IF analyzer = "stop" THEN result.evaluation.place_softscores
  ELSE IF "softscores" \in DOMAIN result.evaluation THEN result.evaluation.softscores
  ELSE <<>>

\* C1 (as stated): whenever one of the five analyzers returns a result,
\* evaluation.final_score and every softscore is a number in [0, 100].
\* analyze_stop returns final_score None when neither the place nor the
\* phonation score could be computed.
C1_ScoresInRange ==
  AnyReturned =>
    /\ IsScore(result.evaluation.final_score)
    /\ \A k \in DOMAIN ScoreBoard : IsScore(ScoreBoard[k])

\* the liquid measurements the reject gates read
LiquidMeasured == Returned("liquid") /\ result.evaluation.reject_reason # "no_onset"

GateFricative ==
  result.features.frication_ratio_peak # None /\ result.features.frication_ratio_peak >= 260

GateUnvoiced ==
  result.features.voiced_fraction # None /\ result.features.voiced_fraction <= 35

GateNoContact ==
  result.features.closure_depth_db # None /\ result.features.closure_depth_db <= 35

\* C2: in analyze_liquid, when frication_ratio_peak >= 2.6, voiced_fraction
\* <= 0.35 or closure_depth_db <= 3.5, the result is rejected and its
\* final_score is at most 35, whatever the weighted sum was.
C2_RejectCaps ==
  (LiquidMeasured /\ (GateFricative \/ GateUnvoiced \/ GateNoContact)) =>
    /\ result.evaluation.is_rejected
    /\ result.evaluation.final_score <= 3500

\* a rejected liquid whose weighted sum was above the cap
C2_Witness ==
  /\ LiquidMeasured
  /\ GateNoContact
  /\ liquid_weighted_score(result.evaluation.softscores) > 3500
  /\ result.evaluation.is_rejected
  /\ result.evaluation.final_score = 3500

\* C3: the liquid reject gates are tried in the order too_fricative,
\* too_unvoiced, no_tongue_contact and the first that holds gives the
\* reject_reason; when none holds the result is not rejected, the reason is
\* empty and final_score is the uncapped weighted sum of the softscores.
C3_GateOrder ==
  LiquidMeasured =>
    /\ GateFricative => result.evaluation.reject_reason = "too_fricative"
    /\ (~GateFricative /\ GateUnvoiced) => result.evaluation.reject_reason = "too_unvoiced"
    /\ (~GateFricative /\ ~GateUnvoiced /\ GateNoContact) =>
         result.evaluation.reject_reason = "no_tongue_contact"
    /\ (~GateFricative /\ ~GateUnvoiced /\ ~GateNoContact) =>
         /\ ~result.evaluation.is_rejected
         /\ result.evaluation.reject_reason = ""
         /\ result.evaluation.final_score = liquid_weighted_score(result.evaluation.softscores)

\* two gates hold at once and the earlier one is reported
C3_Witness ==
  /\ LiquidMeasured
  /\ GateFricative /\ GateUnvoiced /\ GateNoContact
  /\ result.evaluation.reject_reason = "too_fricative"

\* no entry of the board f is strictly above the entry of d
IsArgMax(f, d) == d \in DOMAIN f /\ \A k \in DOMAIN f : f[k] <= f[d]

\* the composite phonation score of the candidate c of a stop result
StopPhonationComposite(c) ==
  compute_phonation_score(compute_vot_score(result.features.vot_ms, c),
                          compute_f0_score(result.features.f0_z, c),
                          result.features.vot_ms)

NasalPlaceBoard ==
  [labial   |-> result.evaluation.softscores.place_labial,
   alveolar |-> result.evaluation.softscores.place_alveolar]

\* the detected category is an argmax of its score board, in the analyzers
\* that keep one
DetectedIsArgMaxOfBoard ==
  /\ (Returned("stop") /\ result.evaluation.detected_place # "unknown") =>
       IsArgMax(result.evaluation.place_softscores, result.evaluation.detected_place)
  /\ Returned("fricative") =>
       IsArgMax(result.evaluation.softscores, result.evaluation.detected_fricative)
  /\ Returned("affricate") =>
       IsArgMax(result.evaluation.softscores, result.evaluation.detected_affricate)
  /\ (Returned("nasal") /\ result.evaluation.detected_place # "None") =>
       IsArgMax(NasalPlaceBoard, result.evaluation.detected_place)

\* C4 (as stated): the detected category is the argmax of the candidates'
\* composite scores in every analyzer, the stop's detected phonation
\* included.
C4_DetectedIsArgMax ==
  /\ DetectedIsArgMaxOfBoard
  /\ (Returned("stop") /\ result.evaluation.detected_phonation \in DOMAIN VOT_RANGES_MS) =>
       \A c \in DOMAIN VOT_RANGES_MS :
         StopPhonationComposite(c) <= StopPhonationComposite(result.evaluation.detected_phonation)

\* C4 (amended): the detected stop place, fricative, affricate and nasal
\* place are argmaxes of their score boards; the stop's detected phonation
\* is read off the VOT alone: below 20 ms fortis, below 50 ms lenis, below
\* 100 ms aspirated, from 100 ms over-aspirated, unknown without a VOT.
C4_ArgMaxExceptStopPhonation ==
  /\ DetectedIsArgMaxOfBoard
  /\ Returned("stop") =>
       result.evaluation.detected_phonation =
         (IF result.features.vot_ms = None THEN "unknown"
          ELSE IF result.features.vot_ms < 20 THEN "fortis"
          ELSE IF result.features.vot_ms < 50 THEN "lenis"
          ELSE IF result.features.vot_ms < 100 THEN "aspirated"
          ELSE "over-aspirated")

\* a fricative whose detected label is not the first of the board and
\* differs from the target
C4_Witness ==
  /\ Returned("fricative")
  /\ result.evaluation.detected_fricative = "h"
  /\ result.targets.fricative = "s"
  /\ result.evaluation.softscores["h"] > result.evaluation.softscores["s"]
  /\ result.evaluation.softscores["h"] > result.evaluation.softscores["ss"]

\* C5: analyze_affricate and analyze_fricative return as final_score the
\* composite score of the target category, softscores[target], also when
\* another category scored higher and was detected.
C5_FinalIsTargetScore ==
  /\ Returned("fricative") =>
       result.evaluation.final_score = result.evaluation.softscores[result.targets.fricative]
  /\ Returned("affricate") =>
       result.evaluation.final_score = result.evaluation.softscores[result.targets.affricate]

\* an affricate detected as another category, which scored higher
C5_Witness ==
  /\ Returned("affricate")
  /\ result.evaluation.detected_affricate # result.targets.affricate
  /\ result.evaluation.final_score
       < result.evaluation.softscores[result.evaluation.detected_affricate]
  /\ result.evaluation.final_score = result.evaluation.softscores[result.targets.affricate]

\* C6 (as stated): in analyze_affricate, when the VOT, the centroid or the
\* HF contrast is None, no candidate's composite score is reported as the
\* number 0 (it is None or left out of softscores).
C6_NoFabricatedZero ==
  (/\ Returned("affricate")
   /\ \/ result.features.vot_ms = None
      \/ result.features.spectral_centroid_hz = None
      \/ result.features.hf_contrast_db = None) =>
    \A lab \in DOMAIN result.evaluation.softscores : result.evaluation.softscores[lab] # 0

\* C7 (as stated): analyze_fricative never raises; with an empty frication
\* region, or one whose slice is under 20 ms, it returns a result whose
\* centroid and HF contrast are None.
C7_FricativeNeverRaises ==
  analyzer = "fricative" =>
    /\ pc # "raised"
    /\ (Returned("fricative") /\ result.features.duration_ms < 20) =>
         /\ result.features.spectral_centroid_hz = None
         /\ result.features.hf_contrast = None

\* C8 (as stated): on the all-zero 0.5 s buffer each analyzer returns, with
\* a final_score that is a number at or near 0 (within 5 points).
C8_SilenceScoresNearZero ==
  SilentRecording =>
    /\ pc # "raised"
    /\ pc = "returned" => /\ result.status = "ok"
                          /\ IsScore(result.evaluation.final_score)
                          /\ result.evaluation.final_score <= 500

\* C9 (as stated): analyze_stop reports detected_phonation in {fortis,
\* lenis, aspirated} and detected_place in {labial, alveolar, velar}.
C9_ClosedEnumerations ==
  Returned("stop") =>
    /\ result.evaluation.detected_phonation \in {"fortis", "lenis", "aspirated"}
    /\ result.evaluation.detected_place \in {"labial", "alveolar", "velar"}

\* C9 (amended): detected_phonation is fortis, lenis or aspirated, or
\* over-aspirated exactly when the VOT is 100 ms or more, or unknown exactly
\* when no VOT was measured; detected_place is labial, alveolar or velar,
\* or unknown exactly when no F2 onset was measured.
C9_EnumerationsWithSentinels ==
  Returned("stop") =>
    /\ result.evaluation.detected_phonation
         \in {"fortis", "lenis", "aspirated", "over-aspirated", "unknown"}
    /\ result.evaluation.detected_phonation = "unknown" <=> result.features.vot_ms = None
    /\ result.evaluation.detected_phonation = "over-aspirated" <=>
         (result.features.vot_ms # None /\ result.features.vot_ms >= 100)
    /\ result.evaluation.detected_place \in {"labial", "alveolar", "velar", "unknown"}
    /\ result.evaluation.detected_place = "unknown" <=> result.features.f2_onset_hz = None

\* a stop with a late voicing onset and a measured, ambiguous F2
C9_Witness ==
  /\ Returned("stop")
  /\ result.features.vot_ms = 120
  /\ result.evaluation.detected_phonation = "over-aspirated"
  /\ result.features.f2_onset_hz = 1450
  /\ result.evaluation.place_confidence < PLACE_LOW_CONF_THRESH
  /\ result.evaluation.detected_place \in {"labial", "alveolar"}

\* the F0 z-score is within 0.1 of the centre of phonation c
F0zNearCentre(c) ==
  result.features.f0_z # None /\ Abs(result.features.f0_z - F0Z_TARGETS[c][1]) <= 10

\* C10: a stop with VOT 10 ms, 35 ms or 80 ms (inside the fortis, lenis and
\* aspirated range) and an F0 z-score near that category's centre is
\* detected as fortis, lenis and aspirated respectively.
C10_InRangeVotDetected ==
  Returned("stop") =>
    /\ (result.features.vot_ms = 10 /\ F0zNearCentre("fortis")) =>
         result.evaluation.detected_phonation = "fortis"
    /\ (result.features.vot_ms = 35 /\ F0zNearCentre("lenis")) =>
         result.evaluation.detected_phonation = "lenis"
    /\ (result.features.vot_ms = 80 /\ F0zNearCentre("aspirated")) =>
         result.evaluation.detected_phonation = "aspirated"

\* a 35 ms VOT with the F0 z-score at the lenis centre, detected as lenis
C10_Witness ==
  /\ Returned("stop")
  /\ result.features.vot_ms = 35
  /\ result.features.f0_z = F0Z_TARGETS["lenis"][1]
  /\ result.evaluation.detected_phonation = "lenis"

\* the feature keys each analyzer reports on a normal run
FeatureKeys ==
  [stop      |-> {"vot_ms", "f2_onset_hz", "f0_onset_hz", "f0_z"},
   fricative |-> {"spectral_centroid_hz", "hf_contrast", "duration_ms",
                  "trim_offset_s", "fric_start_t", "fric_end_t"},
   affricate |-> {"vot_ms", "frication_duration_ms", "spectral_centroid_hz",
                  "hf_contrast_db"},
   nasal     |-> {"onset_t", "f2_onset_hz", "low_ratio_0_500_over_0_2000",
                  "spectral_centroid_hz"},
   liquid    |-> {"onset_t", "f3_onset_hz", "closure_depth_db",
                  "spectral_centroid_hz", "frication_ratio_peak", "voiced_fraction"}]

\* C11 (as stated): in every result of every analyzer, the no-onset results
\* of analyze_liquid and analyze_nasal included, the features map has every
\* feature key of a normal run (the value None when it was not measured).
\* The no-onset result of analyze_liquid has an empty features map.
C11_FeatureKeysPresent ==
  AnyReturned => DOMAIN result.features = FeatureKeys[analyzer]

\* the same statement without analyze_liquid: it holds for the other four
C11_FeatureKeysExceptLiquid ==
  (AnyReturned /\ analyzer # "liquid") => DOMAIN result.features = FeatureKeys[analyzer]

\* the trimmed signal analyze_liquid and analyze_nasal hand to estimate_onset_t
OnsetInput == TrimmedSignal(rec, trim_by_intensity(rec, 40, 50))

\* the dedicated no-onset result: final_score 0, no measured feature and no
\* softscore
NoOnsetResult ==
  /\ result.evaluation.final_score = 0
  /\ \A k \in DOMAIN result.features : result.features[k] = None
  /\ IF analyzer = "liquid"
     THEN /\ DOMAIN result.evaluation = {"final_score", "is_rejected", "reject_reason"}
          /\ result.evaluation.is_rejected
          /\ result.evaluation.reject_reason = "no_onset"
          /\ result.feedback = <<"no_clear_onset">>
     ELSE /\ result.evaluation.softscores = <<>>
          /\ result.evaluation.detected_place = "None"
          /\ result.feedback = <<"no_clear_nasal_onset">>

\* C12: estimate_onset_t returns None when the trimmed signal is shorter
\* than 50 ms or its band-limited envelope peak is zero, and whenever it
\* returns None analyze_nasal and analyze_liquid return their no-onset
\* result (final_score 0) with no extracted feature and no score.
C12_NoOnsetShortCircuits ==
  (Returned("liquid") \/ Returned("nasal")) =>
    /\ (OnsetInput.size < 50 \/ OnsetInput.env_peak <= 0)
         => estimate_onset_t(OnsetInput) = None
    /\ estimate_onset_t(OnsetInput) = None => NoOnsetResult

\* a liquid recording of 40 ms with a non-zero envelope, answered with the
\* no-onset result
C12_Witness ==
  /\ Returned("liquid")
  /\ OnsetInput.size < 50
  /\ OnsetInput.env_peak > 0
  /\ OnsetInput.env_first # None
  /\ NoOnsetResult

\* the silence trim each analyzer applies to its recording (analyze_stop
\* does not trim) and its margin below the peak, in dB
Trims == analyzer \in {"fricative", "affricate", "nasal", "liquid"}

TrimMargin == IF analyzer = "fricative" THEN 30 ELSE 40

TrimResult ==
  IF analyzer = "fricative" THEN trim_by_intensity_fric(rec, 30, 50)
  ELSE trim_by_intensity(rec, 40, 50)

\* the intensity frames within the margin of the global peak
ActiveFrames ==
  LET vals == rec.intensity
  IN  {i \in 1..Len(vals) :
         \A j \in 1..Len(vals) : vals[i].db >= vals[j].db - TrimMargin}

\* the slice from 50 ms before the first active frame to 50 ms after the
\* last one, clamped to [0, duration]
PaddedSlice ==
  LET first == rec.intensity[SetMin(ActiveFrames)].t
      last  == rec.intensity[SetMax(ActiveFrames)].t
      start == Max2(0, first - 50)
      stop  == Min2(rec.dur, last + 50)
  IN  [dur |-> stop - start, offset |-> start]

Untrimmed == [dur |-> rec.dur, offset |-> 0]

\* the peak intensity of the track is at most 1e-6 dB
FaintPeak ==
  \A i \in 1..Len(rec.intensity) : rec.intensity[i].db <= 0

\* C13 (as stated): trim_by_intensity never raises; without an intensity
\* frame that clears the threshold it returns the untrimmed signal with
\* offset 0, otherwise the slice from 50 ms before the first active frame to
\* 50 ms after the last, clamped to [0, duration], with the slice start as
\* offset.  fricative.py returns a faint recording untrimmed although frames
\* clear the threshold.
C13_TrimSlice ==
  (pc # "call" /\ Trims) =>
    TrimResult = IF ActiveFrames = {} THEN Untrimmed ELSE PaddedSlice

\* C13 (amended): as above, except that trim_by_intensity of fricative.py
\* also returns the untrimmed signal with offset 0 when the peak intensity
\* is at most 1e-6 dB.
C13_TrimSliceUnlessFaint ==
  (pc # "call" /\ Trims) =>
    TrimResult = IF ActiveFrames = {} \/ (analyzer = "fricative" /\ FaintPeak)
                 THEN Untrimmed ELSE PaddedSlice

\* a fricative whose leading and trailing silence was cut, reported as
\* trim_offset_s
C13_Witness ==
  /\ Returned("fricative")
  /\ ActiveFrames # {}
  /\ TrimResult = PaddedSlice
  /\ TrimResult.offset > 0
  /\ TrimResult.dur < rec.dur
  /\ result.features.trim_offset_s = TrimResult.offset

\* the recording is already trimmed: what lies before its first and after
\* its last active intensity frame is no longer than the 50 ms of padding
\* that a trim leaves
AlreadyTrimmed ==
  /\ rec.int_ok
  /\ ActiveFrames # {}
  /\ rec.intensity[SetMin(ActiveFrames)].t <= 50
  /\ rec.intensity[SetMax(ActiveFrames)].t >= rec.dur - 50

\* C14: trim_by_intensity applied to an already trimmed signal (no
\* low-intensity stretch beyond the padding of a first trim) returns the
\* same signal: offset 0 and the same length.
C14_TrimIdempotent ==
  (pc # "call" /\ Trims /\ AlreadyTrimmed) => TrimResult = Untrimmed

\* the 200 ms slice left by a first trim, with its padding frames below the
\* threshold, comes back whole
C14_Witness ==
  /\ Returned("nasal")
  /\ AlreadyTrimmed
  /\ rec.intensity = TrimmedSpeechIntensity
  /\ \E i \in 1..Len(rec.intensity) : i \notin ActiveFrames
  /\ TrimResult = [dur |-> 200, offset |-> 0]

C16_ResultByValue ==
  /\ module = ModuleObjects
  /\ \A t \in Threads :
       (calls[t].pc = "returned" /\ ~calls[t].edited)
         => calls[t].result = calls[t].alone

\* C17: every syllable CONSONANT_SYMBOL_TO_SYLLABLE maps a symbol to is in
\* exactly one of the five category sets, and the dispatcher's result for
\* it is the result of that set's analyzer.
C17_RoutedToItsCategory ==
  /\ \A symbol \in DOMAIN CONSONANT_SYMBOL_TO_SYLLABLE :
       Cardinality({c \in DOMAIN CategorySets :
                      CONSONANT_SYMBOL_TO_SYLLABLE[symbol] \in CategorySets[c]}) = 1
  /\ pc # "call" =>
       \A c \in DOMAIN CategorySets :
         syllable \in CategorySets[c] =>
           result = AnalyzeCallOf([analyzer |-> c, syllable |-> syllable, rec |-> rec[c]])

\* the dispatcher returned a nasal result for the syllable of symbol n
C17_Witness ==
  /\ analyzer = "consonant"
  /\ pc = "returned"
  /\ syllable = CONSONANT_SYMBOL_TO_SYLLABLE["n"]
  /\ result.status = "ok"
  /\ result.type = "nasal"

\* the pitch frames of a returned stop call that have 70 < F0 < 400, and
\* those of them that are active: in aspirated mode HNR above 5 dB and
\* intensity less than 40 dB below the window's peak, otherwise intensity
\* less than 50 dB below it
VotInRange == {i \in 1..Len(rec.pitch) : rec.pitch[i].f0 > 70 /\ rec.pitch[i].f0 < 400}

VotActive ==
  {i \in VotInRange :
     IF STOP_META[syllable].phonation = "aspirated"
     THEN rec.pitch[i].hnr > 5 /\ rec.pitch[i].drop < 40
     ELSE rec.pitch[i].drop < 50}

\* C18: the stop's VOT is the time after the burst of the earliest active
\* in-range frame; if no frame is active, of the first in-range frame; it
\* is None only if no frame is in range, and never negative.
C18_VoicingOnsetGate ==
  (analyzer = "stop" /\ pc = "returned" /\ result.status = "ok") =>
    LET vot == result.features.vot_ms
    IN  /\ VotActive # {} => vot = rec.pitch[SetMin(VotActive)].t
        /\ (VotActive = {} /\ VotInRange # {}) => vot = rec.pitch[SetMin(VotInRange)].t
        /\ vot = None => VotInRange = {}
        /\ vot # None => vot >= 0

\* an aspirated stop whose first in-range frame fails the gate and whose
\* second passes it: the VOT is the second frame's time
C18_Witness ==
  /\ analyzer = "stop"
  /\ pc = "returned"
  /\ STOP_META[syllable].phonation = "aspirated"
  /\ VotInRange = {1, 2}
  /\ VotActive = {2}
  /\ result.features.vot_ms = rec.pitch[2].t

\* what estimate_vot_ms of a returned affricate call was given: the trimmed
\* signal y and the burst time (10 ms before the frication start)
AffSignal == TrimmedSignal(rec, trim_by_intensity(rec, 40, 50))

AffBurst(y) == Clip(detect_frication_region(y).t0 - 10, 0, Max2(0, y.size - 20))

\* the pitch frames at or after the burst that are voiced, that are voiced
\* with periodicity >= 0.35, and that pass the strict gate
AffVoiced(y, burst_t) ==
  {i \in 0..(PitchFrames(y.size) - 1) :
     PitchTime(y.size, i) >= burst_t /\ PitchF0(y, i) > 0}

AffPeriodic(y, burst_t) ==
  {i \in AffVoiced(y, burst_t) : acf_periodicity_score(y, i) >= 35}

AffStrict(y, burst_t) ==
  {i \in AffPeriodic(y, burst_t) :
     /\ i + 2 < PitchFrames(y.size)
     /\ \A j \in {i + 1, i + 2} : PitchF0(y, j) > 0
     /\ \A j, k \in i..(i + 2) : PitchF0(y, j) - PitchF0(y, k) <= 80}

\* the VOT reported for voicing onset at frame i
AffVotAt(y, burst_t, i) == Min2(Max2(0, PitchTime(y.size, i) - burst_t), VOT_CAP_MS)

AffricateMeasured ==
  /\ analyzer = "affricate"
  /\ pc = "returned"
  /\ result.status = "ok"
  /\ AffSignal.size >= 60

\* C19 (as stated): when no frame passes the strict gate, the VOT is that
\* of the first voiced frame at or after the burst, whatever its
\* periodicity, and the VOT is None only if no such frame is voiced.
C19_FallbackAnyVoiced ==
  AffricateMeasured =>
    LET Holds(y, burst_t, voiced, strict) ==
          /\ (strict = {} /\ voiced # {}) =>
               result.features.vot_ms = AffVotAt(y, burst_t, SetMin(voiced))
          /\ result.features.vot_ms = None => voiced = {}
        At(y, burst_t) ==
          Holds(y, burst_t, AffVoiced(y, burst_t), AffStrict(y, burst_t))
        Of(y) == At(y, AffBurst(y))
    IN  Of(AffSignal)

\* C19 (amended): the fallback keeps the periodicity gate: the VOT is that
\* of the first strict frame, else of the first voiced frame at or after
\* the burst with periodicity >= 0.35, and None when there is no such frame.
C19_FallbackKeepsPeriodicity ==
  AffricateMeasured =>
    LET Holds(y, burst_t, periodic, strict) ==
          /\ strict # {} => result.features.vot_ms = AffVotAt(y, burst_t, SetMin(strict))
          /\ (strict = {} /\ periodic # {}) =>
               result.features.vot_ms = AffVotAt(y, burst_t, SetMin(periodic))
          /\ periodic = {} => result.features.vot_ms = None
        At(y, burst_t) ==
          Holds(y, burst_t, AffPeriodic(y, burst_t), AffStrict(y, burst_t))
        Of(y) == At(y, AffBurst(y))
    IN  Of(AffSignal)

\* no strict frame, the first voiced frame is not periodic enough, a later
\* one is and gives the VOT
C19_Witness ==
  /\ AffricateMeasured
  /\ LET Holds(y, burst_t, voiced, periodic, strict) ==
           /\ strict = {}
           /\ periodic # {}
           /\ SetMin(periodic) # SetMin(voiced)
           /\ result.features.vot_ms = AffVotAt(y, burst_t, SetMin(periodic))
           /\ result.features.vot_ms # AffVotAt(y, burst_t, SetMin(voiced))
         At(y, burst_t) ==
           Holds(y, burst_t, AffVoiced(y, burst_t), AffPeriodic(y, burst_t),
                 AffStrict(y, burst_t))
         Of(y) == At(y, AffBurst(y))
     IN  Of(AffSignal)

\* the trimmed signal a returned fricative call searched for frication
FricSignal == TrimmedSignal(rec, trim_by_intensity_fric(rec, 30, 50))

\* a window start..end (ms) inside a signal, of at least shortest and at
\* most cap ms
WindowWithin(start, end, duration, shortest, cap) ==
  /\ 0 <= start
  /\ start < end
  /\ end <= duration
  /\ end - start >= shortest
  /\ end - start <= cap

RegionSearched == pc # "call" /\ analyzer \in {"affricate", "fricative"}

\* C20 (as stated): whatever the input, the frication window satisfies
\* 0 <= start < end <= duration and is at least 20 ms and at most the cap
\* (180 ms affricate, 220 ms fricative) long.
C20_WindowAlwaysValid ==
  RegionSearched =>
    LET Aff(y, reg) == WindowWithin(reg.t0, reg.t1, y.size, 20, 180)
        Fric(y, reg) == WindowWithin(reg.t_start, reg.t_end, y.size, 20, 220)
    IN  IF analyzer = "affricate"
        THEN Aff(AffSignal, detect_frication_region(AffSignal))
        ELSE Fric(FricSignal, detect_frication_region_peak(FricSignal, 220, 35))

\* C20 (amended): the affricate's window is valid (20..180 ms) for a signal
\* of at least 20 ms and is the whole signal for a shorter one; the
\* fricative's window is valid (25..220 ms) unless the signal is shorter
\* than the 25 ms RMS window or the peak ratio is not positive, and then it
\* is the empty window (0, 0).
C20_WindowValidUnlessShort ==
  RegionSearched =>
    LET Aff(y, reg) ==
          IF y.size >= 20 THEN WindowWithin(reg.t0, reg.t1, y.size, 20, 180)
          ELSE reg.t0 = 0 /\ reg.t1 = y.size
        Fric(y, reg, n) ==
          IF n = 0 \/ \A i \in 0..(n - 1) : BandRatio(y, i) <= 0
          THEN reg.t_start = 0 /\ reg.t_end = 0
          ELSE WindowWithin(reg.t_start, reg.t_end, y.size, 25, 220)
    IN  IF analyzer = "affricate"
        THEN Aff(AffSignal, detect_frication_region(AffSignal))
        ELSE Fric(FricSignal, detect_frication_region_peak(FricSignal, 220, 35),
                  rms_frames_fric(FricSignal.size))

\* a fricative whose hiss lasts longer than the cap: the window is cut to
\* exactly 220 ms
C20_Witness ==
  /\ analyzer = "fricative"
  /\ pc = "returned"
  /\ rec.bands.w = 30
  /\ LET Cut(reg) == reg.t_start >= 0 /\ reg.t_end - reg.t_start = 220
     IN  Cut(detect_frication_region_peak(FricSignal, 220, 35))

\* the frames of the fricative's ratio curve whose 25 ms windows lie inside
\* the window start..end (hop 10 ms), and the frames of the affricate's
\* smoothed curve whose times lie inside it
FramesInside(n, start, end, win) ==
  {i \in 0..(n - 1) : start <= 10 * i /\ 10 * i + win <= end}

\* C21 (as stated): every frame from the returned start frame to the
\* returned end frame has a ratio at or above its threshold: the start
\* fraction of the peak up to the peak frame, the end fraction after it
\* (fricative: 35% both ways; affricate: 45% and 20% of the smoothed peak).
C21_RegionFramesAboveThreshold ==
  RegionSearched =>
    LET Fric(y, reg, n) ==
          LET At(peak_val) ==
                \A i \in FramesInside(n, reg.t_start, reg.t_end, 25) :
                  BandRatio(y, i) * 100 >= 35 * peak_val
          IN  n > 0 => At(SetMax({BandRatio(y, i) : i \in 0..(n - 1)}))
        Aff(reg, ratio_s, m) ==
          LET At(peak, idx_peak) ==
                \A i \in FramesInside(m, reg.t0, reg.t1, 0) :
                  /\ i <= idx_peak => ratio_s[i] * 100 >= 45 * peak
                  /\ i >= idx_peak => ratio_s[i] * 100 >= 20 * peak
              Peak(peak) == At(peak, SetMin({i \in 0..(m - 1) : ratio_s[i] = peak}))
          IN  Peak(SetMax({ratio_s[i] : i \in 0..(m - 1)}))
        AffOf(y, n) ==
          Aff(detect_frication_region(y),
              moving_average([i \in 0..(n - 1) |-> BandRatio(y, i)], n),
              IF n < 2 THEN n ELSE Max2(n, 5))
    IN  IF analyzer = "affricate"
        THEN AffOf(AffSignal, rms_frames_aff(AffSignal.size))
        ELSE Fric(FricSignal, detect_frication_region_peak(FricSignal, 220, 35),
                  rms_frames_fric(FricSignal.size))

\* C22 (as stated): once the update_progress calls for the (user, sound)
\* have ended, however they interleaved, the progress table holds exactly
\* one row for it, with the highest score submitted (or the earlier value
\* if that was higher).
C22_OneRowWithMaximum ==
  (\A t \in Threads : calls[t].pc \in {"done", "raised"}) =>
    /\ Len(module.rows) = 1
    /\ module.rows[1] =
         SetMax({calls[t].score : t \in Threads}
                  \cup {module.initial[i] : i \in 1..Len(module.initial)})

\* C23 (as stated): once the user has uploaded three samples of every sound
\* the calibration endpoint accepts, a vowel analysis for that user is
\* scored against a personalized reference.
C23_CalibratedUserPersonalized ==
  (/\ calls.uploads = {"i", "u"} \X (1..3)
   /\ calls.last.endpoint = "analyze-vowel"
   /\ calls.last.status = 200
   /\ calls.last.reference # "guest")
    => calls.last.reference = "personalized"

\* C30 (as stated): when a request has completed, with a response or an
\* error, no temporary file it created is left on disk.
C30_NoTempFileLeft == module.disk = {}

\* C24: the phonation score of a stop is (1 - w) * vot_score + w * f0_score
\* with w = 0.45 when the VOT is within 6 ms of 20, 50, 60 or 100 ms and
\* w = 0.20 otherwise; with exactly one of the two scores missing it is the
\* other one, and it is None only when both are missing.
C24_PhonationWeights ==
  Returned("stop") =>
    LET ev   == result.evaluation
        vot  == result.features.vot_ms
        near == \E b \in {20, 50, 60, 100} : vot - b <= 6 /\ b - vot <= 6
        w    == IF near THEN 45 ELSE 20
    IN  /\ (ev.vot_score # None /\ ev.f0_score # None) =>
             ev.phonation_score = RoundDiv((100 - w) * ev.vot_score + w * ev.f0_score, 100)
        /\ (ev.vot_score = None /\ ev.f0_score # None) => ev.phonation_score = ev.f0_score
        /\ (ev.vot_score # None /\ ev.f0_score = None) => ev.phonation_score = ev.vot_score
        /\ ev.phonation_score = None <=> (ev.vot_score = None /\ ev.f0_score = None)

\* a stop whose VOT is within 6 ms of a boundary and whose two cue scores
\* differ, scored with the F0 weight 0.45
C24_Witness ==
  /\ Returned("stop")
  /\ result.features.vot_ms # None
  /\ \E b \in {20, 50, 60, 100} :
       result.features.vot_ms - b <= 6 /\ b - result.features.vot_ms <= 6
  /\ result.evaluation.vot_score # None
  /\ result.evaluation.f0_score # None
  /\ result.evaluation.vot_score # result.evaluation.f0_score
  /\ result.evaluation.phonation_score =
       RoundDiv(55 * result.evaluation.vot_score + 45 * result.evaluation.f0_score, 100)

\* C27 (as stated): for the target phonation of the call, no VOT outside
\* the target's reference range [lo, hi] scores higher than the measured
\* VOT when that lies inside the range.
C27_InsideNeverBelowOutside ==
  (/\ Returned("stop")
   /\ result.features.vot_ms # None
   /\ result.features.vot_ms >= VOT_RANGES_MS[result.targets.phonation][1]
   /\ result.features.vot_ms <= VOT_RANGES_MS[result.targets.phonation][2]) =>
    \A outside \in 0..180 :
      (\/ outside < VOT_RANGES_MS[result.targets.phonation][1]
       \/ outside > VOT_RANGES_MS[result.targets.phonation][2]) =>
        compute_vot_score(outside, result.targets.phonation) <= result.evaluation.vot_score

\* C28 (as stated): the feedback of a stop does not say that the place
\* ("... position is good") is right when the detected place is "unknown"
\* and the place score is None, whether or not a phonation score exists.
C28_NoPlacePraiseWhenUnknown ==
  (/\ Returned("stop")
   /\ result.evaluation.detected_place = "unknown"
   /\ result.evaluation.place_score = None) =>
    \A i \in 1..Len(result.feedback) : result.feedback[i] # "place_position_is_good"

\* C25: the affricate feedback is determined by the target, the detected
\* class and the target's score: when detected = target it starts with the
\* tier of the score (>= 80 Excellent, >= 65 Good, >= 45 Close, otherwise
\* Needs practice) and affirms the production only for Excellent and Good;
\* when they differ it names the class that was heard and the adjustment
\* towards the target.
C25_FeedbackByTier ==
  Returned("affricate") =>
    LET target   == result.targets.affricate
        detected == result.evaluation.detected_affricate
        score    == result.evaluation.softscores[target]
        tier     == IF score >= 8000 THEN "Excellent"
                    ELSE IF score >= 6500 THEN "Good"
                    ELSE IF score >= 4500 THEN "Close"
                    ELSE "Needs practice"
    IN  /\ target = detected =>
             /\ result.feedback[1] = tier
             /\ result.feedback[3] = target
             /\ result.feedback[2] = "this_sounds_like" <=> tier \in {"Excellent", "Good"}
        /\ target # detected =>
             result.feedback = <<"right_now_it_sounds_like", detected, "aim_for", target>>

\* an affricate detected as its target with a score in the Close tier: the
\* feedback starts with "Close" and does not affirm
C25_Witness ==
  /\ Returned("affricate")
  /\ result.targets.affricate = result.evaluation.detected_affricate
  /\ result.evaluation.final_score >= 4500
  /\ result.evaluation.final_score < 6500
  /\ result.feedback[1] = "Close"
  /\ result.feedback[2] # "this_sounds_like"

C29_NoDetectionWithoutScores ==
  /\ (/\ Returned("affricate")
      /\ \/ result.features.vot_ms = None
         \/ result.features.spectral_centroid_hz = None
         \/ result.features.hf_contrast_db = None) =>
       /\ result.evaluation.detected_affricate # result.targets.affricate
       /\ result.feedback[2] \notin {"this_sounds_like", "basically_but_not_yet"}
  /\ (/\ Returned("nasal")
      /\ result.features.onset_t # None
      /\ result.features.f2_onset_hz = None) =>
       /\ result.evaluation.detected_place # result.targets.place
       /\ result.feedback[1] \notin {"good_job", "close"}

====
